---- MODULE Spec2Model ----
(***************************************************************************)
(* Model of the opencl-go/cl12 binding: the user-data / callback bridge    *)
(* (SetMemObjectDestructorCallback, EnqueueNativeKernel and their          *)
(* trampolines), the wait-list marshalling of the enqueue operations and   *)
(* the status-to-error mapping of the wrappers.                            *)
(*                                                                         *)
(* Host goroutines are the callers 1..NumCalls; each performs one call of  *)
(* the binding.  The native runtime is the environment: it answers every   *)
(* native call with a status, keeps the destructor callback stack of each  *)
(* memory object and the enqueued native kernels, and runs the trampolines *)
(* on callback threads of its own.                                         *)
(***************************************************************************)
EXTENDS Integers, Sequences, FiniteSets, TLC

\* ------------------------------------------------------------------ bounds

\* Number of host goroutines, each making one call of the binding.
NumCalls == 3
\* Longest wait-list a caller passes.
MaxWait == 2
\* Longest list of work dimensions / memory objects a caller passes.
MaxList == 2
\* Largest count the native runtime reports for a list query.
MaxCount == 2
\* Largest size, in bytes, the native runtime reports for an info query.
MaxSize == 2
\* Largest reference count a resource reaches.
MaxRefs == 2
\* Most commands enqueued on the command-queue.
MaxCmds == 2
\* Largest numeric value of a handle that is formatted.
MaxHandle == 20

\* --------------------------------------------------------------- constants

CL_SUCCESS == 0
CL_INVALID_PLATFORM == -32
CL_INVALID_OPERATION == -59
CL_INVALID_VALUE == -30

Statuses == {CL_SUCCESS, CL_INVALID_PLATFORM, CL_INVALID_OPERATION}

Calls == 1..NumCalls
\* A trampoline run is (call, copy): copy 1 is the delivery the native runtime
\* owes an accepted registration, copy 2 a second delivery of the same user data.
Copies == {1, 2}
Mems == {"mem"}
Events == {"ev1", "ev2"}
\* One resource of each reference-counted kind; "sub" is a sub-buffer of "mem".
Resources == {"queue", "kernel", "sampler", "mem", "sub"}

\* Pointers: the nil pointer, and the address of element index of a Go slice.
NULL == [base |-> "nil", index |-> 0]
AddressOf(slice, i) == [base |-> slice, index |-> i]
NoRet == [type |-> "none"]
Nil == [type |-> "nil"]
NoCall == [fn |-> "none"]
NoPayload == [shape |-> "none", cb |-> 0]
NoArgs == <<>>
NoPtrs == [called |-> FALSE, list |-> <<>>]

\* The two payload shapes stored in the type-erased registry.
ShapeDestructor == "func()"
ShapeKernel == "func(unsafe.Pointer)"

VARIABLES
    callers,      \* the host goroutines that exist
    waitLists,    \* the wait-lists the host passes to enqueue operations
    memLists,     \* the memory-object lists the host passes
    pc,           \* pc[k]: position of caller k in its call
    op,           \* op[k]: the operation caller k runs
    arg,          \* arg[k]: the memory object of a destructor registration
    tok,          \* tok[k]: token of callbackUserData (0: none)
    status,       \* status[k]: the last native status received
    ret,          \* ret[k]: the error returned (NoRet before the return)
    input,        \* input[k]: the list arguments caller k passed to its operation
    native,       \* native[k]: arguments of the last native call of caller k
    result,       \* result[k]: the value returned beside the error
    registry,     \* token -> payload: the process-wide user-data registry
    nextToken,    \* next token userDataFor hands out
    memState,     \* memState[m]: alive | destroying
    dstack,       \* dstack[m]: native destructor callback stack (tokens)
    regLog,       \* regLog[m]: callbacks accepted for m, in order of acceptance
    fireLog,      \* fireLog[m]: destructor callbacks invoked for m, in order
    tpc,          \* tpc[k][c]: position of trampoline run (k, c)
    tval,         \* tval[k][c]: payload the run retrieved with Value()
    fired,        \* fired[k]: times the host callback of call k was invoked
    rolledBack,   \* tokens the registering call deleted after a native failure
    delivered,    \* tokens a trampoline was entered with
    infoSize,     \* size in bytes of the value an info query asks the runtime for
    life,         \* life[r]: none | alive | destroyed, of a resource of the runtime
    refCount,     \* refCount[r]: the runtime's reference count of resource r
    outOfOrder,   \* the command-queue has CL_QUEUE_OUT_OF_ORDER_EXEC_MODE_ENABLE
    commands,     \* the commands enqueued on the command-queue, in order
    evState,      \* evState[e]: pending | complete, of an event of another queue
    argsBuf,      \* argsBuf[k]: the argument buffer the runtime hands to the trampoline
    memPtr        \* memPtr[k]: the pointers the host callback of call k received

vars == <<callers, waitLists, memLists, pc, op, arg, tok, status, ret, input, native, result,
          registry, nextToken, memState, dstack, regLog, fireLog, tpc, tval, fired,
          rolledBack, delivered, infoSize, life, refCount, outOfOrder, commands, evState,
          argsBuf, memPtr>>

\* The state of the native runtime that the callback bridge never touches.
kernelArgs == <<argsBuf, memPtr>>
hostLists == <<callers, waitLists, memLists, kernelArgs>>
objects == <<infoSize, life, refCount, outOfOrder, evState>>
runtime == <<objects, commands>>
workload == <<hostLists, runtime>>
NoInput == [waitList |-> <<>>, memObjects |-> <<>>, workDimensions |-> <<>>]
NoResult == [kind |-> "none"]
bridgeEnv == <<memState, dstack, regLog, fireLog>>
trampVars == <<tpc, tval, fired, delivered>>

\* ------------------------------------------------------------ error values

\* StatusError(status): the error value of a native status.
StatusError(s) == [type |-> "StatusError", code |-> s]

\* The error userDataFor returns when it cannot allocate the token.
ErrAlloc == [type |-> "ErrOutOfMemory"]

\* A status check that lets CL_INVALID_OPERATION through as nil.
ErrorOfSwallowing(s) == IF s # CL_SUCCESS /\ s # CL_INVALID_OPERATION THEN StatusError(s) ELSE Nil

\* if status != C.CL_SUCCESS { return StatusError(status) }; return nil
ErrorOf(s) == IF s # CL_SUCCESS THEN StatusError(s) ELSE Nil

\* ---------------------------------------------------------------- registry

Registered(t) == t \in DOMAIN registry

\* userDataFor: a fresh token mapped to the payload.
RegistryInsert(reg, t, payload) ==
    [x \in DOMAIN reg \cup {t} |-> IF x = t THEN payload ELSE reg[x]]

\* userData.Delete(): the entry of the token is removed.
RegistryDelete(reg, t) == [x \in DOMAIN reg \ {t} |-> reg[x]]

\* The callers before k have all reached userDataFor: k names the k-th call to
\* reach it (callers are interchangeable).
MayBegin(k) ==
    /\ k \in callers
    /\ pc[k] = "idle"
    /\ \A j \in callers : j < k => pc[j] # "idle"

\* ------------------------------------------------- marshalling of the lists

\* A marshalling that takes the address of the list whatever its length.
RawWaitListAlwaysAddress(waitList) == AddressOf("waitList", 0)

\* var rawWaitList unsafe.Pointer; if len(waitList) > 0 { rawWaitList = &waitList[0] }
RawWaitList(waitList) ==
    IF Len(waitList) > 0 THEN AddressOf("waitList", 0) ELSE NULL

\* var rawMemObjects unsafe.Pointer; if len(memObjects) > 0 { ... = &memObjects[0] }
RawMemObjects(memObjects) ==
    IF Len(memObjects) > 0 THEN AddressOf("memObjects", 0) ELSE NULL

\* The argument buffer of a native kernel, in slots of one pointer width,
\* slot 0 first.
TokenPtr(token) == AddressOf("userData", token)

\* rawArgs := make([]uintptr, len(memObjects)+1); rawArgs[0] = uintptr(callbackUserData.ptr)
RawArgs(token, memObjects) ==
    [i \in 0..Len(memObjects) |-> IF i = 0 THEN TokenPtr(token) ELSE NULL]

\* C.size_t(uintptr(len(rawArgs))*unsafe.Sizeof(uintptr(0))), in pointer widths
ArgsSize(rawArgs) == Cardinality(DOMAIN rawArgs)

\* Patch locations that start at slot 0.
RawArgsMemLocsFromZero(memObjects) ==
    [j \in 1..Len(memObjects) |-> AddressOf("rawArgs", j - 1)]

\* for i := 0; i < len(memObjects); i++ { rawArgsMemLocs[i] = &rawArgs[1+i] }
\* (element j of the sequence is rawArgsMemLocs[j-1])
RawArgsMemLocs(memObjects) ==
    [j \in 1..Len(memObjects) |-> AddressOf("rawArgs", 1 + (j - 1))]

\* var rawArgsMemLocsPtr unsafe.Pointer; if len(memObjects) > 0 { ... = &rawArgsMemLocs[0] }
RawArgsMemLocsPtr(memObjects) ==
    IF Len(memObjects) > 0 THEN AddressOf("rawArgsMemLocs", 0) ELSE NULL

\* The pointer to the global memory of m that the runtime writes into a slot.
clMemPointer(m) == AddressOf(m, 0)

\* The runtime's copy of the args buffer when it executes the command: for each
\* of the numMemObjects entries, the slot that argsMemLoc names holds the
\* pointer of the memory object of that entry.
clPatchArgs(args, argsSize, numMemObjects, memList, argsMemLoc) ==
    [i \in 0..(argsSize - 1) |->
        IF \E j \in 1..numMemObjects : argsMemLoc[j].index = i
        THEN clMemPointer(memList[CHOOSE j \in 1..numMemObjects : argsMemLoc[j].index = i])
        ELSE args[i]]

\* callback(unsafe.Add(args, unsafe.Sizeof(uintptr(0)))): the slot the wrapped
\* callback starts at.
ArgBase == 1

\* memPtr := make([]unsafe.Pointer, len(memObjects)); for i := 0; i < len(memObjects); i++ {
\* memPtr[i] = *argMovePtr; argMovePtr += one pointer width }
MemPtr(args, argBase, memObjects) ==
    [j \in 1..Len(memObjects) |-> args[argBase + (j - 1)]]

\* --------------------------------------------------------------- userDataFor

\* An allocator that hands out the last token again.
FreshTokenReused == IF nextToken > 1 THEN nextToken - 1 ELSE nextToken

\* The token userDataFor allocates: a monotonically increasing integer.
FreshToken == nextToken

\* callbackUserData, err := userDataFor(payload); if err != nil { return err }
\* ok = FALSE is the allocation failure.
UserDataFor(k, payload, ok) ==
    IF ok
    THEN /\ tok' = [tok EXCEPT ![k] = FreshToken]
         /\ registry' = RegistryInsert(registry, FreshToken, payload)
         /\ nextToken' = nextToken + 1
         /\ pc' = [pc EXCEPT ![k] = "allocated"]
         /\ ret' = ret
    ELSE /\ ret' = [ret EXCEPT ![k] = ErrAlloc]
         /\ pc' = [pc EXCEPT ![k] = "done"]
         /\ UNCHANGED <<tok, registry, nextToken>>

\* ------------------------------------------ SetMemObjectDestructorCallback

DestructorPayload(k) == [shape |-> ShapeDestructor, cb |-> k]

\* SetMemObjectDestructorCallback(mem, callback), up to the native call.
SetMemObjectDestructorCallback(k) ==
    /\ MayBegin(k)
    /\ \E m \in Mems, ok \in BOOLEAN :
          /\ memState[m] = "alive"
          /\ op' = [op EXCEPT ![k] = "SetMemObjectDestructorCallback"]
          /\ arg' = [arg EXCEPT ![k] = m]
          /\ UserDataFor(k, DestructorPayload(k), ok)
    /\ UNCHANGED <<workload, result, status, input, native, bridgeEnv, trampVars, rolledBack>>

\* status := C.cl12SetMemObjectDestructorCallback(mem.handle(), callbackUserData.ptr):
\* an accepted registration is pushed on the destructor callback stack of mem.
cl12SetMemObjectDestructorCallback(k) ==
    /\ k \in callers
    /\ pc[k] = "allocated"
    /\ op[k] = "SetMemObjectDestructorCallback"
    /\ \E s \in Statuses :
          /\ status' = [status EXCEPT ![k] = s]
          /\ native' = [native EXCEPT ![k] =
                 [fn |-> "clSetMemObjectDestructorCallback", mem |-> arg[k],
                  notify |-> "cl12CMemObjectDestructorCallback", userData |-> tok[k]]]
          /\ IF s = CL_SUCCESS
             THEN /\ dstack' = [dstack EXCEPT ![arg[k]] = Append(@, tok[k])]
                  /\ regLog' = [regLog EXCEPT ![arg[k]] = Append(@, k)]
             ELSE UNCHANGED <<dstack, regLog>>
    /\ pc' = [pc EXCEPT ![k] = "called"]
    /\ UNCHANGED <<workload, result, op, arg, tok, ret, input, registry, nextToken,
                   memState, fireLog, trampVars, rolledBack>>

\* A check that deletes the user data whatever the status.
ShouldRollbackAlways(s) == TRUE

\* A check turned round: the user data is deleted when the call was accepted.
ShouldRollbackOnSuccess(s) == s = CL_SUCCESS

\* if status != C.CL_SUCCESS
ShouldRollback(s) == s # CL_SUCCESS

\* A failure path that leaves the user data registered.
RollbackRemoveKept(reg, t) == reg

\* callbackUserData.Delete() of the failure path
RollbackRemove(reg, t) == RegistryDelete(reg, t)

\* if status != C.CL_SUCCESS { callbackUserData.Delete(); return StatusError(status) }
\* return nil
ReturnAfterNative(k) ==
    IF ShouldRollback(status[k])
    THEN IF Registered(tok[k])
         THEN /\ registry' = RollbackRemove(registry, tok[k])
              /\ rolledBack' = rolledBack \cup {tok[k]}
              /\ ret' = [ret EXCEPT ![k] = StatusError(status[k])]
              /\ pc' = [pc EXCEPT ![k] = "done"]
         ELSE /\ pc' = [pc EXCEPT ![k] = "panic"]
              /\ rolledBack' = rolledBack \cup {tok[k]}
              /\ UNCHANGED <<registry, ret>>
    ELSE /\ ret' = [ret EXCEPT ![k] = Nil]
         /\ pc' = [pc EXCEPT ![k] = "done"]
         /\ UNCHANGED <<registry, rolledBack>>

SetMemObjectDestructorCallbackReturn(k) ==
    /\ k \in callers
    /\ pc[k] = "called"
    /\ op[k] = "SetMemObjectDestructorCallback"
    /\ ReturnAfterNative(k)
    /\ UNCHANGED <<workload, result, op, arg, tok, status, input, native, nextToken, bridgeEnv,
                   trampVars>>

\* ------------------------------------------------------ EnqueueNativeKernel

\* A registration of the caller's callback itself, not wrapped.
KernelPayloadUnwrapped(k) == [shape |-> "func([]unsafe.Pointer)", cb |-> k]

\* userDataFor(func(argBasePtr unsafe.Pointer) {...})
KernelPayload(k) == [shape |-> ShapeKernel, cb |-> k]

\* An EnqueueNativeKernel that goes on to the native call whatever userDataFor
\* returned.
EnqueueNativeKernelIgnoringErr(k) ==
    /\ MayBegin(k)
    /\ op' = [op EXCEPT ![k] = "EnqueueNativeKernel"]
    /\ pc' = [pc EXCEPT ![k] = "allocated"]
    /\ UNCHANGED <<workload, result, arg, status, input, native, bridgeEnv, trampVars,
                   rolledBack, tok, registry, nextToken, ret>>

\* EnqueueNativeKernel(queue, callback, memObjects, waitList, event), up to the
\* marshalling: the callback is wrapped and registered.
EnqueueNativeKernel(k) ==
    /\ MayBegin(k)
    /\ \E ok \in BOOLEAN :
          /\ op' = [op EXCEPT ![k] = "EnqueueNativeKernel"]
          /\ UserDataFor(k, KernelPayload(k), ok)
    /\ UNCHANGED <<workload, result, arg, status, input, native, bridgeEnv, trampVars, rolledBack>>

\* The marshalling and status := C.cl12EnqueueNativeKernel(...): rawArgs holds the
\* token pointer and one slot per memory object.
cl12EnqueueNativeKernel(k) ==
    /\ k \in callers
    /\ pc[k] = "allocated"
    /\ op[k] = "EnqueueNativeKernel"
    /\ \E s \in Statuses, waitList \in waitLists, memObjects \in memLists :
          /\ status' = [status EXCEPT ![k] = s]
          /\ input' = [input EXCEPT ![k] =
                 [waitList |-> waitList, memObjects |-> memObjects,
                  workDimensions |-> <<>>]]
          /\ native' = [native EXCEPT ![k] =
                 [fn |-> "clEnqueueNativeKernel",
                  notify |-> "cl12CKernelNativeCallback",
                  userData |-> tok[k],
                  rawArgs |-> RawArgs(tok[k], memObjects),
                  args |-> AddressOf("rawArgs", 0),
                  argSlots |-> ArgsSize(RawArgs(tok[k], memObjects)),
                  rawArgsMemLocs |-> RawArgsMemLocs(memObjects),
                  argsMemLoc |-> RawArgsMemLocsPtr(memObjects),
                  numMemObjects |-> Len(memObjects),
                  memList |-> RawMemObjects(memObjects),
                  waitListCount |-> Len(waitList),
                  waitList |-> RawWaitList(waitList)]]
    /\ pc' = [pc EXCEPT ![k] = "called"]
    /\ UNCHANGED <<workload, result, op, arg, tok, ret, registry, nextToken, bridgeEnv,
                   trampVars, rolledBack>>

EnqueueNativeKernelReturn(k) ==
    /\ k \in callers
    /\ pc[k] = "called"
    /\ op[k] = "EnqueueNativeKernel"
    /\ ReturnAfterNative(k)
    /\ UNCHANGED <<workload, result, op, arg, tok, status, input, native, nextToken, bridgeEnv,
                   trampVars>>

\* ------------------------------------------------------ the native runtime

\* The last reference of m is released: the runtime starts to destroy it.  No
\* registration on m is inside its native call.
DestroyMemObject(m) ==
    /\ memState[m] = "alive"
    /\ \A k \in callers :
          ~(op[k] = "SetMemObjectDestructorCallback" /\ arg[k] = m /\ pc[k] = "allocated")
    /\ memState' = [memState EXCEPT ![m] = "destroying"]
    /\ UNCHANGED <<workload, result, pc, op, arg, tok, status, ret, input, native, registry,
                   nextToken, dstack, regLog, fireLog, trampVars, rolledBack>>

\* A runtime that calls the callbacks in the order of registration.
DestructorPickFirst(stack) == 1

\* "The registered callback functions are called in the reverse order in which
\* they were registered": the runtime takes the top of the stack.
DestructorPick(stack) == Len(stack)

RemoveAt(stack, i) == [j \in 1..(Len(stack) - 1) |-> IF j < i THEN stack[j] ELSE stack[j + 1]]

TrampolineRunning(k, c) == tpc[k][c] \in {"value", "delete", "invoke"}

\* cl12CMemObjectDestructorCallback(mem, userData): the runtime calls the next
\* destructor callback of m, one at a time, on a thread of its own.
cl12CMemObjectDestructorCallback(m) ==
    /\ memState[m] = "destroying"
    /\ dstack[m] # <<>>
    /\ \A j \in Calls, c \in Copies :
          (op[j] = "SetMemObjectDestructorCallback" /\ arg[j] = m) => ~TrampolineRunning(j, c)
    /\ LET i == DestructorPick(dstack[m])
           t == dstack[m][i]
       IN  /\ \E k \in Calls :
                 /\ op[k] = "SetMemObjectDestructorCallback"
                 /\ arg[k] = m
                 /\ tok[k] = t
                 /\ tpc[k][1] = "idle"
                 /\ tpc' = [tpc EXCEPT ![k][1] = "value"]
           /\ dstack' = [dstack EXCEPT ![m] = RemoveAt(@, i)]
           /\ delivered' = delivered \cup {t}
    /\ UNCHANGED <<workload, result, pc, op, arg, tok, status, ret, input, native, registry,
                   nextToken, memState, regLog, fireLog, tval, fired, rolledBack>>

\* cl12CKernelNativeCallback(args): the runtime executes an accepted native
\* kernel command, at any time after it accepted it.
cl12CKernelNativeCallback(k) ==
    /\ op[k] = "EnqueueNativeKernel"
    /\ pc[k] \in {"called", "done", "panic"}
    /\ native[k].fn = "clEnqueueNativeKernel"
    /\ status[k] = CL_SUCCESS
    /\ tpc[k][1] = "idle"
    /\ tpc' = [tpc EXCEPT ![k][1] = "value"]
    /\ delivered' = delivered \cup {tok[k]}
    /\ argsBuf' = [argsBuf EXCEPT ![k] =
           clPatchArgs(native[k].rawArgs, native[k].argSlots, native[k].numMemObjects,
                       input[k].memObjects, native[k].rawArgsMemLocs)]
    /\ UNCHANGED <<callers, waitLists, memLists, memPtr, runtime, result, pc, op, arg, tok,
                   status, ret, input, native, registry, nextToken, bridgeEnv, tval, fired,
                   rolledBack>>

\* A runtime that breaks its contract: the user data of a delivery is handed to
\* the trampoline a second time, on another thread.
DeliverAgain(k) ==
    /\ tpc[k][1] # "idle"
    /\ tpc[k][2] = "idle"
    /\ tpc' = [tpc EXCEPT ![k][2] = "value"]
    /\ UNCHANGED <<workload, result, pc, op, arg, tok, status, ret, input, native, registry,
                   nextToken, bridgeEnv, tval, fired, rolledBack, delivered>>

\* ------------------------------------------------------------ trampolines

\* A trampoline whose Delete() leaves the user data registered.
TrampolineRemoveKept(reg, t) == reg

\* callbackUserData.Delete() of a trampoline
TrampolineRemove(reg, t) == RegistryDelete(reg, t)

\* A trampoline that calls the callback before Delete().
MemTrampolineNextInvokeFirst(step) ==
    CASE step = "value" -> "invoke" [] step = "invoke" -> "delete" [] step = "delete" -> "done"

\* The statement order of cl12GoMemObjectDestructorCallback:
\* Value().(func()), then Delete(), then callback().
MemTrampolineNext(step) ==
    CASE step = "value" -> "delete" [] step = "delete" -> "invoke" [] step = "invoke" -> "done"

\* A trampoline that calls the callback without Delete().
KernelTrampolineNextNoDelete(step) ==
    CASE step = "value" -> "invoke" [] step = "invoke" -> "done" [] step = "delete" -> "done"

\* The statement order of cl12GoKernelNativeCallback:
\* Value().(func(unsafe.Pointer)), then Delete(), then callback(args + 1 slot).
KernelTrampolineNext(step) ==
    CASE step = "value" -> "delete" [] step = "delete" -> "invoke" [] step = "invoke" -> "done"

TrampolineNext(k, step) ==
    IF op[k] = "SetMemObjectDestructorCallback"
    THEN MemTrampolineNext(step) ELSE KernelTrampolineNext(step)

\* callback := callbackUserData.Value().(shape): the payload of the token, asserted
\* to the shape of the call site; a missing token or another shape panics.
TrampolineValue(k, c, shape) ==
    IF Registered(tok[k]) /\ registry[tok[k]].shape = shape
    THEN /\ tval' = [tval EXCEPT ![k][c] = registry[tok[k]]]
         /\ tpc' = [tpc EXCEPT ![k][c] = TrampolineNext(k, "value")]
    ELSE /\ tpc' = [tpc EXCEPT ![k][c] = "panic"]
         /\ tval' = tval

\* callbackUserData.Delete(): a token that is not registered panics.
TrampolineDelete(k, c) ==
    IF Registered(tok[k])
    THEN /\ registry' = TrampolineRemove(registry, tok[k])
         /\ tpc' = [tpc EXCEPT ![k][c] = TrampolineNext(k, "delete")]
    ELSE /\ tpc' = [tpc EXCEPT ![k][c] = "panic"]
         /\ registry' = registry

MemCallbackValue(k, c) ==
    /\ op[k] = "SetMemObjectDestructorCallback"
    /\ tpc[k][c] = "value"
    /\ TrampolineValue(k, c, ShapeDestructor)
    /\ UNCHANGED <<workload, result, pc, op, arg, tok, status, ret, input, native, registry,
                   nextToken, bridgeEnv, fired, rolledBack, delivered>>

MemCallbackDelete(k, c) ==
    /\ op[k] = "SetMemObjectDestructorCallback"
    /\ tpc[k][c] = "delete"
    /\ TrampolineDelete(k, c)
    /\ UNCHANGED <<workload, result, pc, op, arg, tok, status, ret, input, native,
                   nextToken, bridgeEnv, tval, fired, rolledBack, delivered>>

\* callback()
MemCallbackInvoke(k, c) ==
    /\ op[k] = "SetMemObjectDestructorCallback"
    /\ tpc[k][c] = "invoke"
    /\ fired' = [fired EXCEPT ![tval[k][c].cb] = @ + 1]
    /\ fireLog' = [fireLog EXCEPT ![arg[k]] = Append(@, tval[k][c].cb)]
    /\ tpc' = [tpc EXCEPT ![k][c] = TrampolineNext(k, "invoke")]
    /\ UNCHANGED <<workload, result, pc, op, arg, tok, status, ret, input, native, registry,
                   nextToken, memState, dstack, regLog, tval, rolledBack, delivered>>

KernelCallbackValue(k, c) ==
    /\ op[k] = "EnqueueNativeKernel"
    /\ tpc[k][c] = "value"
    /\ TrampolineValue(k, c, ShapeKernel)
    /\ UNCHANGED <<workload, result, pc, op, arg, tok, status, ret, input, native, registry,
                   nextToken, bridgeEnv, fired, rolledBack, delivered>>

KernelCallbackDelete(k, c) ==
    /\ op[k] = "EnqueueNativeKernel"
    /\ tpc[k][c] = "delete"
    /\ TrampolineDelete(k, c)
    /\ UNCHANGED <<workload, result, pc, op, arg, tok, status, ret, input, native,
                   nextToken, bridgeEnv, tval, fired, rolledBack, delivered>>

\* callback(unsafe.Add(args, ...)): the wrapper builds memPtr and calls the host
\* callback.
KernelCallbackInvoke(k, c) ==
    /\ op[k] = "EnqueueNativeKernel"
    /\ tpc[k][c] = "invoke"
    /\ fired' = [fired EXCEPT ![tval[k][c].cb] = @ + 1]
    /\ memPtr' = [memPtr EXCEPT ![k] =
           [called |-> TRUE, list |-> MemPtr(argsBuf[k], ArgBase, input[k].memObjects)]]
    /\ tpc' = [tpc EXCEPT ![k][c] = TrampolineNext(k, "invoke")]
    /\ UNCHANGED <<callers, waitLists, memLists, argsBuf, runtime, result, pc, op, arg, tok,
                   status, ret, input, native, registry, nextToken, bridgeEnv, tval,
                   rolledBack, delivered>>


\* ----------------------------------------------- wrappers of one native call

bridgeVars == <<tok, registry, nextToken, bridgeEnv, trampVars, rolledBack>>

\* status := C.fn(...); if status != C.CL_SUCCESS { return StatusError(status) }
\* return nil
StatusCall(k, name, fn) ==
    /\ MayBegin(k)
    /\ \E s \in Statuses :
          /\ status' = [status EXCEPT ![k] = s]
          /\ ret' = [ret EXCEPT ![k] = ErrorOf(s)]
    /\ op' = [op EXCEPT ![k] = name]
    /\ native' = [native EXCEPT ![k] = [fn |-> fn]]
    /\ pc' = [pc EXCEPT ![k] = "done"]
    /\ UNCHANGED <<workload, arg, input, result, bridgeVars>>

\* A SetKernelArg that registers the argument as user data.
SetKernelArgRegistering(k) ==
    /\ MayBegin(k)
    /\ \E s \in Statuses :
          /\ status' = [status EXCEPT ![k] = s]
          /\ ret' = [ret EXCEPT ![k] = ErrorOf(s)]
    /\ op' = [op EXCEPT ![k] = "SetKernelArg"]
    /\ native' = [native EXCEPT ![k] = [fn |-> "clSetKernelArg"]]
    /\ pc' = [pc EXCEPT ![k] = "done"]
    /\ registry' = RegistryInsert(registry, FreshToken, [shape |-> "arg", cb |-> k])
    /\ nextToken' = nextToken + 1
    /\ UNCHANGED <<workload, arg, input, result, tok, bridgeEnv, trampVars, rolledBack>>

SetKernelArg(k) == StatusCall(k, "SetKernelArg", "clSetKernelArg")
RetainDevice(k) == StatusCall(k, "RetainDevice", "clRetainDevice")
ReleaseDevice(k) == StatusCall(k, "ReleaseDevice", "clReleaseDevice")
UnloadPlatformCompiler(k) == StatusCall(k, "UnloadPlatformCompiler", "clUnloadPlatformCompiler")

\* ------------------------------------------- the runtime's reference counts

\* A handle the host may still use: the object exists and the host holds a
\* reference to it.
Valid(r) == life[r] = "alive" /\ refCount[r] > 0

RetainFns == {"clRetainMemObject", "clRetainKernel", "clRetainSampler", "clRetainCommandQueue"}

\* clRetain... increments the reference count, clRelease... decrements it.
clRefDelta(fn) == IF fn \in RetainFns THEN 1 ELSE -1

\* The sub-buffers of a buffer.
Children(r) == IF r = "mem" THEN {"sub"} ELSE {}

\* The enqueued commands that use r and have not finished.
InFlight(r) == {i \in 1..Len(commands) : r \in commands[i].uses /\ commands[i].state # "complete"}

\* A runtime that deletes a buffer whatever becomes of its sub-buffers.
MayDeleteIgnoringChildren(r) == refCount[r] = 0 /\ InFlight(r) = {}

\* "After the reference count becomes zero and commands queued for execution on
\* a command-queue(s) that use mem have finished, the memory object is deleted.
\* If mem is a buffer object, mem cannot be deleted until all sub-buffer objects
\* associated with mem are deleted."
MayDelete(r) ==
    /\ refCount[r] = 0
    /\ InFlight(r) = {}
    /\ \A c \in Children(r) : life[c] # "alive"

\* The runtime deletes an object.
DeleteObject(r) ==
    /\ life[r] = "alive"
    /\ MayDelete(r)
    /\ life' = [life EXCEPT ![r] = "destroyed"]
    /\ UNCHANGED <<hostLists, infoSize, refCount, outOfOrder, evState, commands, pc, op, arg,
                   status, ret, input, native, result, bridgeVars>>

\* status := C.clRetain...(handle) or C.clRelease...(handle); if status !=
\* C.CL_SUCCESS { return StatusError(status) }; return nil. The runtime accepts
\* the call only on a valid handle.
RefCall(k, name, fn, handles) ==
    /\ MayBegin(k)
    /\ \E r \in handles, s \in Statuses :
          /\ s = CL_SUCCESS => (Valid(r) /\ refCount[r] + clRefDelta(fn) <= MaxRefs)
          /\ refCount' = IF s = CL_SUCCESS
                         THEN [refCount EXCEPT ![r] = @ + clRefDelta(fn)]
                         ELSE refCount
          /\ status' = [status EXCEPT ![k] = s]
          /\ ret' = [ret EXCEPT ![k] = ErrorOf(s)]
          /\ native' = [native EXCEPT ![k] = [fn |-> fn, handle |-> r]]
    /\ op' = [op EXCEPT ![k] = name]
    /\ pc' = [pc EXCEPT ![k] = "done"]
    /\ UNCHANGED <<hostLists, infoSize, life, outOfOrder, evState, commands, arg, input,
                   result, bridgeVars>>

RetainMemObject(k) == RefCall(k, "RetainMemObject", "clRetainMemObject", {"mem", "sub"})
ReleaseMemObject(k) == RefCall(k, "ReleaseMemObject", "clReleaseMemObject", {"mem", "sub"})
RetainKernel(k) == RefCall(k, "RetainKernel", "clRetainKernel", {"kernel"})
\* A release that calls clRetainKernel.
ReleaseKernelRetains(k) == RefCall(k, "ReleaseKernel", "clRetainKernel", {"kernel"})

ReleaseKernel(k) == RefCall(k, "ReleaseKernel", "clReleaseKernel", {"kernel"})
RetainSampler(k) == RefCall(k, "RetainSampler", "clRetainSampler", {"sampler"})
ReleaseSampler(k) == RefCall(k, "ReleaseSampler", "clReleaseSampler", {"sampler"})
RetainCommandQueue(k) == RefCall(k, "RetainCommandQueue", "clRetainCommandQueue", {"queue"})
ReleaseCommandQueue(k) == RefCall(k, "ReleaseCommandQueue", "clReleaseCommandQueue", {"queue"})

\* The goroutine is back from its call and makes another one.
Again(k) ==
    /\ pc[k] = "done"
    /\ tok[k] = 0
    /\ pc' = [pc EXCEPT ![k] = "idle"]
    /\ op' = [op EXCEPT ![k] = "none"]
    /\ status' = [status EXCEPT ![k] = CL_SUCCESS]
    /\ ret' = [ret EXCEPT ![k] = NoRet]
    /\ input' = [input EXCEPT ![k] = NoInput]
    /\ native' = [native EXCEPT ![k] = NoCall]
    /\ result' = [result EXCEPT ![k] = NoResult]
    /\ UNCHANGED <<workload, arg, bridgeVars>>

\* clGet...Info(handle, name, paramSize, paramValue, &sizeReturn) on a value of
\* size bytes: the outcomes the runtime may produce. With a nil paramValue it
\* reports the required size only; a buffer smaller than the value is refused
\* with nothing written to it, and whether the required size is still reported
\* is the runtime's choice; a handle it does not know is refused.
clGetInfo(valid, size, paramSize, paramValue) ==
    IF ~valid
    THEN {[status |-> s, sizeReturn |-> 0, written |-> 0] :
             s \in {CL_INVALID_PLATFORM, CL_INVALID_OPERATION}}
    ELSE IF paramValue # NULL /\ paramSize < size
    THEN {[status |-> CL_INVALID_VALUE, sizeReturn |-> r, written |-> 0] : r \in {0, size}}
    ELSE {[status |-> CL_SUCCESS, sizeReturn |-> size,
           written |-> IF paramValue # NULL THEN size ELSE 0]}

\* A query that returns what the runtime left in sizeReturn whatever the status.
InfoSizeUnchecked(s, sizeReturn) == sizeReturn

\* if status != C.CL_SUCCESS { return 0, StatusError(status) }
\* return uintptr(sizeReturn), nil
InfoSize(s, sizeReturn) == IF s # CL_SUCCESS THEN 0 ELSE sizeReturn

\* A value of a Go type declared over a C info type: the type and the C
\* constant it holds.
InfoName(type, value) == [type |-> type, value |-> value]

\* type SamplerInfoName C.cl_sampler_info and its five constants.
SamplerInfoName ==
    {InfoName("SamplerInfoName", c) :
        c \in {"CL_SAMPLER_REFERENCE_COUNT", "CL_SAMPLER_CONTEXT",
               "CL_SAMPLER_NORMALIZED_COORDS", "CL_SAMPLER_ADDRESSING_MODE",
               "CL_SAMPLER_FILTER_MODE"}}

\* The conversion ContextInfoName(x) of a value of another info-name type.
ContextInfoName(x) == InfoName("ContextInfoName", x.value)

\* C.cl_..._info(paramName): the cast keeps the constant and drops the Go type.
InfoParamName(paramName) == paramName.value

\* C.size_t(paramSize)
InfoParamSize(paramSize) == paramSize

\* sizeReturn := C.size_t(0); status := C.clGet...Info(handle, name, paramSize,
\* paramValue, &sizeReturn); if status != C.CL_SUCCESS { return 0, StatusError(status) }
\* return uintptr(sizeReturn), nil
InfoCall(k, name, fn, paramNames) ==
    /\ MayBegin(k)
    /\ \E valid \in BOOLEAN, paramName \in paramNames, paramSize \in 0..MaxSize,
          paramValue \in {NULL, AddressOf("paramValue", 0)} :
          \E r \in clGetInfo(valid, infoSize, InfoParamSize(paramSize), paramValue) :
             /\ input' = [input EXCEPT ![k] =
                    [valid |-> valid, paramName |-> paramName, paramSize |-> paramSize,
                     paramValue |-> paramValue]]
             /\ status' = [status EXCEPT ![k] = r.status]
             /\ native' = [native EXCEPT ![k] =
                    [fn |-> fn, paramName |-> InfoParamName(paramName),
                     paramSize |-> InfoParamSize(paramSize),
                     paramValue |-> paramValue, written |-> r.written]]
             /\ ret' = [ret EXCEPT ![k] = ErrorOf(r.status)]
             /\ result' = [result EXCEPT ![k] =
                    [kind |-> "size", value |-> InfoSize(r.status, r.sizeReturn)]]
    /\ op' = [op EXCEPT ![k] = name]
    /\ pc' = [pc EXCEPT ![k] = "done"]
    /\ UNCHANGED <<workload, arg, bridgeVars>>

PlatformInfo(k) ==
    InfoCall(k, "PlatformInfo", "clGetPlatformInfo",
             {InfoName("PlatformInfoName", "CL_PLATFORM_NAME")})
DeviceInfo(k) ==
    InfoCall(k, "DeviceInfo", "clGetDeviceInfo",
             {InfoName("DeviceInfoName", "CL_DEVICE_ADDRESS_BITS")})
MemObjectInfo(k) ==
    InfoCall(k, "MemObjectInfo", "clGetMemObjectInfo",
             {InfoName("MemObjectInfoName", "CL_MEM_TYPE")})
KernelInfo(k) ==
    InfoCall(k, "KernelInfo", "clGetKernelInfo",
             {InfoName("KernelInfoName", "CL_KERNEL_FUNCTION_NAME")})
KernelWorkGroupInfo(k) ==
    InfoCall(k, "KernelWorkGroupInfo", "clGetKernelWorkGroupInfo",
             {InfoName("KernelWorkGroupInfoName", "CL_KERNEL_WORK_GROUP_SIZE")})
KernelArgInfo(k) ==
    InfoCall(k, "KernelArgInfo", "clGetKernelArgInfo",
             {InfoName("KernelArgInfoName", "CL_KERNEL_ARG_ADDRESS_QUALIFIER")})
CommandQueueInfo(k) ==
    InfoCall(k, "CommandQueueInfo", "clGetCommandQueueInfo",
             {InfoName("CommandQueueInfoName", "CL_QUEUE_CONTEXT")})
\* func SamplerInfo(sampler Sampler, paramName ContextInfoName, ...): the
\* parameter has the type ContextInfoName, so what a caller passes for a
\* sampler property is the conversion of its name to that type.
SamplerInfo(k) ==
    InfoCall(k, "SamplerInfo", "clGetSamplerInfo",
             {ContextInfoName(n) : n \in SamplerInfoName})

\* var status C.cl_int; handle := C.clCreate...(..., &status)
\* if status != C.CL_SUCCESS { return 0, StatusError(status) }; return handle, nil
\* The runtime returns a handle with CL_SUCCESS and NULL (0) with an error.
CreateCall(k, name, fn, r) ==
    /\ MayBegin(k)
    /\ \E s \in Statuses, h \in 0..MaxCount :
          /\ (s = CL_SUCCESS) <=> (h # 0)
          /\ s = CL_SUCCESS => life[r] = "none"
          /\ life' = IF s = CL_SUCCESS THEN [life EXCEPT ![r] = "alive"] ELSE life
          /\ refCount' = IF s = CL_SUCCESS THEN [refCount EXCEPT ![r] = 1] ELSE refCount
          /\ status' = [status EXCEPT ![k] = s]
          /\ ret' = [ret EXCEPT ![k] = ErrorOf(s)]
          /\ result' = [result EXCEPT ![k] =
                 [kind |-> "handle", value |-> IF s # CL_SUCCESS THEN 0 ELSE h]]
    /\ op' = [op EXCEPT ![k] = name]
    /\ native' = [native EXCEPT ![k] = [fn |-> fn]]
    /\ pc' = [pc EXCEPT ![k] = "done"]
    /\ UNCHANGED <<hostLists, infoSize, outOfOrder, evState, commands, arg, input, bridgeVars>>

CreateKernel(k) == CreateCall(k, "CreateKernel", "clCreateKernel", "kernel")
CreateSampler(k) == CreateCall(k, "CreateSampler", "clCreateSampler", "sampler")

CommandQueuePropertiesFlags == {"QueueOutOfOrderExecModeEnable", "QueueProfilingEnable"}

\* A conversion that sets the out-of-order bit.
QueuePropertiesOutOfOrder(properties) == properties \cup {"QueueOutOfOrderExecModeEnable"}

\* C.cl_command_queue_properties(properties)
QueueProperties(properties) == properties

\* CreateCommandQueue(context, deviceID, properties): the runtime creates the
\* queue in-order unless CL_QUEUE_OUT_OF_ORDER_EXEC_MODE_ENABLE is set.
CreateCommandQueue(k) ==
    /\ MayBegin(k)
    /\ \E s \in Statuses, h \in 0..MaxCount, properties \in SUBSET CommandQueuePropertiesFlags :
          /\ (s = CL_SUCCESS) <=> (h # 0)
          /\ s = CL_SUCCESS => life["queue"] = "none"
          /\ life' = IF s = CL_SUCCESS THEN [life EXCEPT !["queue"] = "alive"] ELSE life
          /\ refCount' = IF s = CL_SUCCESS THEN [refCount EXCEPT !["queue"] = 1] ELSE refCount
          /\ outOfOrder' = IF s = CL_SUCCESS
                           THEN "QueueOutOfOrderExecModeEnable" \in QueueProperties(properties)
                           ELSE outOfOrder
          /\ input' = [input EXCEPT ![k] = [properties |-> properties]]
          /\ status' = [status EXCEPT ![k] = s]
          /\ ret' = [ret EXCEPT ![k] = ErrorOf(s)]
          /\ result' = [result EXCEPT ![k] =
                 [kind |-> "handle", value |-> IF s # CL_SUCCESS THEN 0 ELSE h]]
          /\ native' = [native EXCEPT ![k] =
                 [fn |-> "clCreateCommandQueue", properties |-> QueueProperties(properties)]]
    /\ op' = [op EXCEPT ![k] = "CreateCommandQueue"]
    /\ pc' = [pc EXCEPT ![k] = "done"]
    /\ UNCHANGED <<hostLists, infoSize, evState, commands, arg, bridgeVars>>


\* ------------------------------------------------ wrappers of a list query

\* The first n handles the runtime wrote to the buffer.
Handles(n) == [i \in 1..n |-> i]

\* count := C.cl_uint(0); status := C.fn(..., 0, nil, &count)            (probe)
\* if status != C.CL_SUCCESS { return nil, StatusError(status) }
\* if count == 0 { return nil, nil }               (only with zeroCheck)
\* ids := make([]T, count); status = C.fn(..., count, &ids[0], &count)   (fetch)
\* if status != C.CL_SUCCESS { return nil, StatusError(status) }
\* return ids[:count], nil
\* &ids[0] of an empty slice and ids[:count] beyond the capacity panic.
\* native[k].probed and .fetched are the counts the runtime wrote on success.
ListCall(k, name, fn, zeroCheck) ==
    /\ MayBegin(k)
    /\ \E s1 \in Statuses, c1 \in 0..MaxCount, s2 \in Statuses, c2 \in 0..MaxCount :
          IF s1 # CL_SUCCESS \/ (c1 = 0 /\ zeroCheck)
          THEN /\ s2 = CL_SUCCESS /\ c2 = 0
               /\ status' = [status EXCEPT ![k] = s1]
               /\ native' = [native EXCEPT ![k] =
                      [fn |-> fn, calls |-> 1, numEntries |-> 0,
                       probed |-> IF s1 = CL_SUCCESS THEN c1 ELSE 0, fetched |-> 0]]
               /\ ret' = [ret EXCEPT ![k] = ErrorOf(s1)]
               /\ result' = [result EXCEPT ![k] = [kind |-> "list", value |-> <<>>]]
               /\ pc' = [pc EXCEPT ![k] = "done"]
          ELSE IF c1 = 0
          THEN /\ s2 = CL_SUCCESS /\ c2 = 0
               /\ status' = [status EXCEPT ![k] = s1]
               /\ native' = [native EXCEPT ![k] =
                      [fn |-> fn, calls |-> 1, numEntries |-> 0, probed |-> c1, fetched |-> 0]]
               /\ pc' = [pc EXCEPT ![k] = "panic"]
               /\ UNCHANGED <<ret, result>>
          ELSE /\ status' = [status EXCEPT ![k] = s2]
               /\ native' = [native EXCEPT ![k] =
                      [fn |-> fn, calls |-> 2, numEntries |-> c1, probed |-> c1,
                       fetched |-> IF s2 = CL_SUCCESS THEN c2 ELSE 0]]
               /\ IF s2 = CL_SUCCESS /\ c2 > c1
                  THEN /\ pc' = [pc EXCEPT ![k] = "panic"]
                       /\ UNCHANGED <<ret, result>>
                  ELSE /\ ret' = [ret EXCEPT ![k] = ErrorOf(s2)]
                       /\ result' = [result EXCEPT ![k] =
                              [kind |-> "list",
                               value |-> IF s2 # CL_SUCCESS THEN <<>> ELSE Handles(c2)]]
                       /\ pc' = [pc EXCEPT ![k] = "done"]
    /\ op' = [op EXCEPT ![k] = name]
    /\ UNCHANGED <<workload, arg, input, bridgeVars>>

PlatformIDs(k) == ListCall(k, "PlatformIDs", "clGetPlatformIDs", TRUE)
DeviceIDs(k) == ListCall(k, "DeviceIDs", "clGetDeviceIDs", TRUE)
CreateKernelsInProgram(k) ==
    ListCall(k, "CreateKernelsInProgram", "clCreateKernelsInProgram", TRUE)
CreateSubDevices(k) == ListCall(k, "CreateSubDevices", "clCreateSubDevices", FALSE)

\* ------------------------------------------------------ String() of a handle

\* The handle types of the package with a String method.
HandleTypes == {"PlatformID", "DeviceID", "CommandQueue", "MemObject", "Kernel", "Sampler"}

\* The digits of the verb %X.
HexDigit(d) ==
    <<"0", "1", "2", "3", "4", "5", "6", "7", "8", "9", "A", "B", "C", "D", "E", "F">>[d + 1]

\* The verb %X of an unsigned integer: upper-case hexadecimal digits, most
\* significant first, no leading zeros; a string is the sequence of its characters.
RECURSIVE FormatX(_)
FormatX(n) ==
    IF n < 16 THEN <<HexDigit(n)>> ELSE FormatX(n \div 16) \o <<HexDigit(n % 16)>>

\* A formatting that keeps the last hexadecimal digit only.
Sprintf0xXLastDigit(id) == <<"0", "x", HexDigit(id % 16)>>

\* fmt.Sprintf("0x%X", uintptr(id))
Sprintf0xX(id) == <<"0", "x">> \o FormatX(id)

\* func (id T) String() string { return fmt.Sprintf("0x%X", uintptr(id)) }
StringCall(k, type) ==
    /\ MayBegin(k)
    /\ \E id \in 0..MaxHandle :
          /\ input' = [input EXCEPT ![k] = [type |-> type, id |-> id]]
          /\ result' = [result EXCEPT ![k] = [kind |-> "string", value |-> Sprintf0xX(id)]]
    /\ op' = [op EXCEPT ![k] = "String"]
    /\ pc' = [pc EXCEPT ![k] = "done"]
    /\ UNCHANGED <<workload, arg, status, ret, native, bridgeVars>>

PlatformIDString(k) == StringCall(k, "PlatformID")
DeviceIDString(k) == StringCall(k, "DeviceID")
CommandQueueString(k) == StringCall(k, "CommandQueue")
MemObjectString(k) == StringCall(k, "MemObject")
KernelString(k) == StringCall(k, "Kernel")
SamplerString(k) == StringCall(k, "Sampler")

\* ------------------------------------- notifications of program and context

\* The user-data pointers a caller hands to a wrapper with a notification:
\* NULL without a callback, the address of an allocated token with one.
UserDataPointers == {NULL, AddressOf("userData", 0)}

\* A wrapper that passes its trampoline whatever the user data.
NotifyAlways(callback, userData) == AddressOf(callback, 0)

\* (userData != NULL) ? cl12C...Callback : NULL
Notify(callback, userData) == IF userData # NULL THEN AddressOf(callback, 0) ELSE NULL

\* return cl...(..., (userData != NULL) ? cl12C...Callback : NULL, userData, ...):
\* the wrapper makes the native call with the notification function it chose
\* and the user data it was given.
NotifyCall(k, name, fn, callback) ==
    /\ MayBegin(k)
    /\ \E userData \in UserDataPointers, s \in Statuses :
          /\ input' = [input EXCEPT ![k] = [userData |-> userData]]
          /\ status' = [status EXCEPT ![k] = s]
          /\ native' = [native EXCEPT ![k] =
                 [fn |-> fn, notify |-> Notify(callback, userData), userData |-> userData]]
    /\ op' = [op EXCEPT ![k] = name]
    /\ pc' = [pc EXCEPT ![k] = "done"]
    /\ UNCHANGED <<workload, arg, ret, result, bridgeVars>>

cl12BuildProgram(k) ==
    NotifyCall(k, "cl12BuildProgram", "clBuildProgram", "cl12CProgramBuildCallback")
cl12CompileProgram(k) ==
    NotifyCall(k, "cl12CompileProgram", "clCompileProgram", "cl12CProgramCompileCallback")
cl12LinkProgram(k) ==
    NotifyCall(k, "cl12LinkProgram", "clLinkProgram", "cl12CProgramLinkCallback")
cl12CreateContext(k) ==
    NotifyCall(k, "cl12CreateContext", "clCreateContext", "cl12CContextErrorCallback")
cl12CreateContextFromType(k) ==
    NotifyCall(k, "cl12CreateContextFromType", "clCreateContextFromType",
               "cl12CContextErrorCallback")

\* ------------------------------------------------- the runtime's scheduler

\* The runtime may execute a command once the events of its wait-list are
\* complete; on a queue without CL_QUEUE_OUT_OF_ORDER_EXEC_MODE_ENABLE
\* "commands are executed in-order".
WaitsComplete(i) == \A e \in commands[i].waits : evState[e] = "complete"

InOrder(i) == ~outOfOrder => \A j \in 1..(i - 1) : commands[j].state = "complete"

MayStart(i) == WaitsComplete(i) /\ InOrder(i)

StartCommand(i) ==
    /\ i \in 1..Len(commands)
    /\ commands[i].state = "queued"
    /\ MayStart(i)
    /\ commands' = [commands EXCEPT ![i].state = "running"]
    /\ UNCHANGED <<hostLists, objects, pc, op, arg, status, ret, input, native, result,
                   bridgeVars>>

CompleteCommand(i) ==
    /\ i \in 1..Len(commands)
    /\ commands[i].state = "running"
    /\ commands' = [commands EXCEPT ![i].state = "complete", ![i].event = "complete"]
    /\ UNCHANGED <<hostLists, objects, pc, op, arg, status, ret, input, native, result,
                   bridgeVars>>

\* A command of another queue completes, and its event with it.
CompleteEvent(e) ==
    /\ evState[e] = "pending"
    /\ evState' = [evState EXCEPT ![e] = "complete"]
    /\ UNCHANGED <<hostLists, infoSize, life, refCount, outOfOrder, commands, pc, op, arg,
                   status, ret, input, native, result, bridgeVars>>

\* clFinish "blocks until all previously queued commands have completed";
\* clFlush gives "no guarantee that they will be complete after Flush() returns".
clBlocks(fn) == fn = "clFinish"

\* status := C.clFlush(commandQueue.handle()) or C.clFinish(...): the call is
\* made; native[k].queued counts the commands queued before it.
QueueCall(k, name, fn) ==
    /\ MayBegin(k)
    /\ op' = [op EXCEPT ![k] = name]
    /\ native' = [native EXCEPT ![k] = [fn |-> fn, queued |-> Len(commands)]]
    /\ pc' = [pc EXCEPT ![k] = "blocked"]
    /\ UNCHANGED <<workload, arg, status, ret, input, result, bridgeVars>>

Flush(k) == QueueCall(k, "Flush", "clFlush")
\* A Finish that calls clFlush.
FinishFlushes(k) == QueueCall(k, "Finish", "clFlush")

Finish(k) == QueueCall(k, "Finish", "clFinish")

\* The runtime returns from clFlush or clFinish, and the wrapper with it:
\* if status != C.CL_SUCCESS { return StatusError(status) }; return nil
QueueCallReturn(k) ==
    /\ pc[k] = "blocked"
    /\ \E s \in Statuses :
          /\ s = CL_SUCCESS =>
                /\ Valid("queue")
                /\ clBlocks(native[k].fn) =>
                      \A i \in 1..native[k].queued : commands[i].state = "complete"
          /\ status' = [status EXCEPT ![k] = s]
          /\ ret' = [ret EXCEPT ![k] = ErrorOf(s)]
    /\ pc' = [pc EXCEPT ![k] = "done"]
    /\ UNCHANGED <<workload, op, arg, input, native, result, bridgeVars>>

\* ------------------------------------------------------- enqueue operations

\* The work dimensions a caller passes.
WorkDimensions ==
    {[GlobalOffset |-> 0, GlobalSize |-> 1, LocalSize |-> 1],
     [GlobalOffset |-> 1, GlobalSize |-> 2, LocalSize |-> 2]}
DimLists == UNION {[1..n -> WorkDimensions] : n \in 0..MaxList}

Range(seq) == {seq[i] : i \in 1..Len(seq)}

\* The events the runtime reads: waitListCount entries at waitList.
clWaitList(waitListCount, rawWaitList, waitList) ==
    IF rawWaitList = NULL THEN {} ELSE {waitList[i] : i \in 1..waitListCount}

\* The runtime takes a command on a valid queue, for valid objects, with a
\* wait-list whose count and pointer agree.
MayAccept(uses, waitListCount, rawWaitList) ==
    /\ \A r \in uses : Valid(r)
    /\ (waitListCount = 0) <=> (rawWaitList = NULL)
    /\ Len(commands) < MaxCmds

\* The command a clEnqueue... call leaves on the queue when the runtime returns
\* s, and the event it writes through the event pointer: the command's record
\* carries the status of that output event.
clEnqueue(k, s, fn, uses, geometry, waitListCount, rawWaitList, waitList) ==
    /\ s = CL_SUCCESS => MayAccept(uses, waitListCount, rawWaitList)
    /\ commands' =
          IF s = CL_SUCCESS
          THEN Append(commands,
                      [fn |-> fn, uses |-> uses, geometry |-> geometry,
                       waits |-> clWaitList(waitListCount, rawWaitList, waitList),
                       waitList |-> waitList, state |-> "queued",
                       event |-> "pending"])
          ELSE commands
    /\ result' = [result EXCEPT ![k] =
           IF s = CL_SUCCESS THEN [kind |-> "event", value |-> Len(commands) + 1]
           ELSE NoResult]

\* A count that leaves out the last event of a longer list.
WaitListCountShort(waitList) == IF Len(waitList) > 1 THEN Len(waitList) - 1 ELSE Len(waitList)

\* C.cl_uint(len(waitList))
WaitListCount(waitList) == Len(waitList)

\* clEnqueueTask: one work-item, "equivalent to calling EnqueueNDRangeKernel()
\* with one WorkDimension that has GlobalOffset = 0, GlobalSize = 1, and
\* LocalSize = 1".
clTaskGeometry == <<[GlobalOffset |-> 0, GlobalSize |-> 1, LocalSize |-> 1]>>

\* The work geometry clEnqueueNDRangeKernel reads from its three arrays.
clRangeGeometry(workDim, offsets, sizes, locals) ==
    [i \in 1..workDim |->
        [GlobalOffset |-> offsets[i], GlobalSize |-> sizes[i], LocalSize |-> locals[i]]]

\* A loop that fills the offsets from the global sizes.
GlobalWorkOffsetsFromSizes(dims) == [i \in 1..Len(dims) |-> dims[i].GlobalSize]

\* for i, dimension := range workDimensions { globalWorkOffsets[i] = dimension.GlobalOffset;
\* globalWorkSizes[i] = dimension.GlobalSize; localWorkSizes[i] = dimension.LocalSize }
GlobalWorkOffsets(dims) == [i \in 1..Len(dims) |-> dims[i].GlobalOffset]
GlobalWorkSizes(dims) == [i \in 1..Len(dims) |-> dims[i].GlobalSize]
LocalWorkSizes(dims) == [i \in 1..Len(dims) |-> dims[i].LocalSize]

\* EnqueueNDRangeKernel: &globalWorkOffsets[0] of an empty list panics before the
\* native call.
EnqueueNDRangeKernel(k) ==
    /\ MayBegin(k)
    /\ \E s \in Statuses, waitList \in waitLists, dims \in DimLists :
          /\ input' = [input EXCEPT ![k] =
                 [waitList |-> waitList, memObjects |-> <<>>, workDimensions |-> dims]]
          /\ IF Len(dims) = 0
             THEN /\ s = CL_SUCCESS
                  /\ pc' = [pc EXCEPT ![k] = "panic"]
                  /\ UNCHANGED <<status, native, ret, commands, result>>
             ELSE /\ status' = [status EXCEPT ![k] = s]
                  /\ native' = [native EXCEPT ![k] =
                         [fn |-> "clEnqueueNDRangeKernel",
                          workDim |-> Len(dims),
                          globalWorkOffsets |-> GlobalWorkOffsets(dims),
                          globalWorkSizes |-> GlobalWorkSizes(dims),
                          localWorkSizes |-> LocalWorkSizes(dims),
                          waitListCount |-> WaitListCount(waitList),
                          waitList |-> RawWaitList(waitList)]]
                  /\ clEnqueue(k, s, "clEnqueueNDRangeKernel", {"queue", "kernel"},
                               clRangeGeometry(Len(dims),
                                   GlobalWorkOffsets(dims),
                                   GlobalWorkSizes(dims),
                                   LocalWorkSizes(dims)),
                               WaitListCount(waitList), RawWaitList(waitList), waitList)
                  /\ ret' = [ret EXCEPT ![k] = ErrorOf(s)]
                  /\ pc' = [pc EXCEPT ![k] = "done"]
    /\ op' = [op EXCEPT ![k] = "EnqueueNDRangeKernel"]
    /\ UNCHANGED <<hostLists, objects, arg, bridgeVars>>

EnqueueTask(k) ==
    /\ MayBegin(k)
    /\ \E s \in Statuses, waitList \in waitLists :
          /\ input' = [input EXCEPT ![k] =
                 [waitList |-> waitList, memObjects |-> <<>>, workDimensions |-> <<>>]]
          /\ status' = [status EXCEPT ![k] = s]
          /\ native' = [native EXCEPT ![k] =
                 [fn |-> "clEnqueueTask",
                  waitListCount |-> WaitListCount(waitList),
                  waitList |-> RawWaitList(waitList)]]
          /\ clEnqueue(k, s, "clEnqueueTask", {"queue", "kernel"}, clTaskGeometry,
                       WaitListCount(waitList), RawWaitList(waitList), waitList)
          /\ ret' = [ret EXCEPT ![k] = ErrorOf(s)]
    /\ op' = [op EXCEPT ![k] = "EnqueueTask"]
    /\ pc' = [pc EXCEPT ![k] = "done"]
    /\ UNCHANGED <<hostLists, objects, arg, bridgeVars>>

EnqueueUnmapMemObject(k) ==
    /\ MayBegin(k)
    /\ \E s \in Statuses, waitList \in waitLists, mem \in {"mem", "sub"} :
          /\ input' = [input EXCEPT ![k] =
                 [waitList |-> waitList, memObjects |-> <<mem>>, workDimensions |-> <<>>]]
          /\ status' = [status EXCEPT ![k] = s]
          /\ native' = [native EXCEPT ![k] =
                 [fn |-> "clEnqueueUnmapMemObject",
                  mem |-> mem,
                  waitListCount |-> WaitListCount(waitList),
                  waitList |-> RawWaitList(waitList)]]
          /\ clEnqueue(k, s, "clEnqueueUnmapMemObject", {"queue", mem}, <<>>,
                       WaitListCount(waitList), RawWaitList(waitList), waitList)
          /\ ret' = [ret EXCEPT ![k] = ErrorOf(s)]
    /\ op' = [op EXCEPT ![k] = "EnqueueUnmapMemObject"]
    /\ pc' = [pc EXCEPT ![k] = "done"]
    /\ UNCHANGED <<hostLists, objects, arg, bridgeVars>>

EnqueueMigrateMemObjects(k) ==
    /\ MayBegin(k)
    /\ \E s \in Statuses, waitList \in waitLists, memObjects \in memLists :
          /\ input' = [input EXCEPT ![k] =
                 [waitList |-> waitList, memObjects |-> memObjects,
                  workDimensions |-> <<>>]]
          /\ status' = [status EXCEPT ![k] = s]
          /\ native' = [native EXCEPT ![k] =
                 [fn |-> "clEnqueueMigrateMemObjects",
                  numMemObjects |-> Len(memObjects),
                  memList |-> RawMemObjects(memObjects),
                  waitListCount |-> WaitListCount(waitList),
                  waitList |-> RawWaitList(waitList)]]
          /\ clEnqueue(k, s, "clEnqueueMigrateMemObjects", {"queue"} \cup Range(memObjects),
                       <<>>, WaitListCount(waitList), RawWaitList(waitList), waitList)
          /\ ret' = [ret EXCEPT ![k] = ErrorOf(s)]
    /\ op' = [op EXCEPT ![k] = "EnqueueMigrateMemObjects"]
    /\ pc' = [pc EXCEPT ![k] = "done"]
    /\ UNCHANGED <<hostLists, objects, arg, bridgeVars>>

\* ---------------------------------------------------------- specifications

WaitLists == UNION {[1..n -> Events] : n \in 0..MaxWait}
MemLists == UNION {[1..n -> Mems] : n \in 0..MaxList}

InitState ==
    /\ pc = [k \in Calls |-> "idle"]
    /\ op = [k \in Calls |-> "none"]
    /\ arg = [k \in Calls |-> "none"]
    /\ tok = [k \in Calls |-> 0]
    /\ status = [k \in Calls |-> CL_SUCCESS]
    /\ ret = [k \in Calls |-> NoRet]
    /\ input = [k \in Calls |-> NoInput]
    /\ native = [k \in Calls |-> NoCall]
    /\ result = [k \in Calls |-> NoResult]
    /\ registry = <<>>
    /\ nextToken = 1
    /\ memState = [m \in Mems |-> "alive"]
    /\ dstack = [m \in Mems |-> <<>>]
    /\ regLog = [m \in Mems |-> <<>>]
    /\ fireLog = [m \in Mems |-> <<>>]
    /\ tpc = [k \in Calls |-> [c \in Copies |-> "idle"]]
    /\ tval = [k \in Calls |-> [c \in Copies |-> NoPayload]]
    /\ fired = [k \in Calls |-> 0]
    /\ rolledBack = {}
    /\ delivered = {}
    /\ argsBuf = [k \in Calls |-> NoArgs]
    /\ memPtr = [k \in Calls |-> NoPtrs]

\* The runtime's objects when the host only registers callbacks.
InitObjects(lives) ==
    /\ life = lives
    /\ refCount = [r \in Resources |-> IF lives[r] = "alive" THEN 1 ELSE 0]
    /\ outOfOrder = FALSE
    /\ commands = <<>>
    /\ evState = [e \in Events |-> "pending"]

InitRuntime ==
    /\ infoSize = 1
    /\ InitObjects([r \in Resources |-> "alive"])

\* Concurrent registrations and deliveries; the lists passed through to the
\* runtime are empty.
Init ==
    /\ callers = Calls
    /\ waitLists = {<<>>}
    /\ memLists = {<<>>}
    /\ InitState
    /\ InitRuntime

Register ==
    \E k \in Calls :
       \/ SetMemObjectDestructorCallback(k)
       \/ cl12SetMemObjectDestructorCallback(k)
       \/ SetMemObjectDestructorCallbackReturn(k)
       \/ EnqueueNativeKernel(k)
       \/ cl12EnqueueNativeKernel(k)
       \/ EnqueueNativeKernelReturn(k)

Deliver ==
    \/ \E m \in Mems : DestroyMemObject(m) \/ cl12CMemObjectDestructorCallback(m)
    \/ \E k \in Calls : cl12CKernelNativeCallback(k)
    \/ \E k \in Calls, c \in Copies :
          \/ MemCallbackValue(k, c)
          \/ MemCallbackDelete(k, c)
          \/ MemCallbackInvoke(k, c)
          \/ KernelCallbackValue(k, c)
          \/ KernelCallbackDelete(k, c)
          \/ KernelCallbackInvoke(k, c)

Next == Register \/ Deliver

Spec == Init /\ [][Next]_vars

\* One host goroutine making any call of the binding, with every list up to the
\* bounds.
InitCalls ==
    /\ callers = {1}
    /\ waitLists = WaitLists
    /\ memLists = MemLists
    /\ InitState
    /\ infoSize \in 1..MaxSize
    /\ \E created \in {"none", "alive"} : InitObjects([r \in Resources |-> created])

Wrappers ==
    \E k \in Calls :
       \/ RetainMemObject(k) \/ ReleaseMemObject(k)
       \/ RetainKernel(k) \/ ReleaseKernel(k) \/ SetKernelArg(k)
       \/ RetainSampler(k) \/ ReleaseSampler(k)
       \/ RetainCommandQueue(k) \/ ReleaseCommandQueue(k)
       \/ RetainDevice(k) \/ ReleaseDevice(k)
       \/ Flush(k) \/ Finish(k) \/ QueueCallReturn(k) \/ UnloadPlatformCompiler(k)
       \/ PlatformInfo(k) \/ DeviceInfo(k) \/ MemObjectInfo(k) \/ KernelInfo(k)
       \/ KernelWorkGroupInfo(k) \/ KernelArgInfo(k) \/ CommandQueueInfo(k)
       \/ SamplerInfo(k)
       \/ CreateKernel(k) \/ CreateSampler(k) \/ CreateCommandQueue(k)
       \/ PlatformIDs(k) \/ DeviceIDs(k) \/ CreateKernelsInProgram(k)
       \/ CreateSubDevices(k)
       \/ EnqueueNDRangeKernel(k) \/ EnqueueTask(k) \/ EnqueueUnmapMemObject(k)
       \/ EnqueueMigrateMemObjects(k)

NextCalls == Next \/ Wrappers

SpecCalls == InitCalls /\ [][NextCalls]_vars

\* Two registrations, with a runtime that may deliver the same user data twice.
InitDup ==
    /\ callers = {1, 2}
    /\ waitLists = {<<>>}
    /\ memLists = {<<>>}
    /\ InitState
    /\ InitRuntime

NextDup == Next \/ \E k \in Calls : DeliverAgain(k)

SpecDup == InitDup /\ [][NextDup]_vars

\* Two info queries, one after the other, on a value whose size the runtime
\* knows.
InitInfo ==
    /\ callers = {1, 2}
    /\ waitLists = {<<>>}
    /\ memLists = {<<>>}
    /\ InitState
    /\ infoSize \in 1..MaxSize
    /\ InitObjects([r \in Resources |-> "alive"])

NextInfo ==
    \E k \in Calls :
       \/ PlatformInfo(k) \/ DeviceInfo(k) \/ MemObjectInfo(k) \/ KernelInfo(k)
       \/ KernelWorkGroupInfo(k) \/ KernelArgInfo(k) \/ CommandQueueInfo(k)
       \/ SamplerInfo(k)

SpecInfo == InitInfo /\ [][NextInfo]_vars

\* One goroutine creating, retaining and releasing a kernel, a sampler and a
\* command-queue, and enqueueing tasks that the runtime executes.
InitRef ==
    /\ callers = {1}
    /\ waitLists = {<<>>}
    /\ memLists = {<<>>}
    /\ InitState
    /\ infoSize = 1
    /\ InitObjects([r \in Resources |->
                       IF r \in {"kernel", "sampler", "queue"} THEN "none" ELSE "alive"])

NextRef ==
    \/ \E k \in Calls :
          \/ CreateKernel(k) \/ RetainKernel(k) \/ ReleaseKernel(k)
          \/ CreateSampler(k) \/ RetainSampler(k) \/ ReleaseSampler(k)
          \/ CreateCommandQueue(k) \/ RetainCommandQueue(k) \/ ReleaseCommandQueue(k)
          \/ EnqueueTask(k)
          \/ Again(k)
    \/ \E i \in 1..MaxCmds : StartCommand(i) \/ CompleteCommand(i)
    \/ \E r \in Resources : DeleteObject(r)

SpecRef == InitRef /\ [][NextRef]_vars

\* One goroutine retaining and releasing a buffer and its sub-buffer, and
\* enqueueing unmap commands on them.
InitSub ==
    /\ callers = {1}
    /\ waitLists = {<<>>}
    /\ memLists = {<<>>}
    /\ InitState
    /\ infoSize = 1
    /\ InitObjects([r \in Resources |-> "alive"])

NextSub ==
    \/ \E k \in Calls :
          \/ RetainMemObject(k) \/ ReleaseMemObject(k)
          \/ EnqueueUnmapMemObject(k)
          \/ Again(k)
    \/ \E i \in 1..MaxCmds : StartCommand(i) \/ CompleteCommand(i)
    \/ \E r \in Resources : DeleteObject(r)

SpecSub == InitSub /\ [][NextSub]_vars

\* Goroutine 1 creates the command-queue, enqueues tasks and finishes, call
\* after call; goroutine 2 enqueues one kernel range; the runtime executes the
\* commands and the events of other queues complete.
InitQueue ==
    /\ callers = {1, 2}
    /\ waitLists = {<<>>, <<"ev1", "ev2">>}
    /\ memLists = {<<>>}
    /\ InitState
    /\ infoSize = 1
    /\ InitObjects([r \in Resources |-> IF r = "queue" THEN "none" ELSE "alive"])

NextQueue ==
    \/ CreateCommandQueue(1)
    \/ EnqueueTask(1) \/ Finish(1) \/ QueueCallReturn(1) \/ Again(1)
    \/ EnqueueNDRangeKernel(2)
    \/ \E i \in 1..MaxCmds : StartCommand(i) \/ CompleteCommand(i)
    \/ \E e \in Events : CompleteEvent(e)

SpecQueue == InitQueue /\ [][NextQueue]_vars

\* Two goroutines enqueue native kernels with every list of a buffer and its
\* sub-buffer up to the bound; the runtime executes the accepted ones.
Buffers == {"mem", "sub"}
BufferLists == UNION {[1..n -> Buffers] : n \in 0..MaxList}

InitArgs ==
    /\ callers = {1, 2}
    /\ waitLists = {<<>>}
    /\ memLists = BufferLists
    /\ InitState
    /\ InitRuntime

NextArgs ==
    \E k \in Calls :
       \/ EnqueueNativeKernel(k)
       \/ cl12EnqueueNativeKernel(k)
       \/ EnqueueNativeKernelReturn(k)
       \/ cl12CKernelNativeCallback(k)
       \/ KernelCallbackValue(k, 1)
       \/ KernelCallbackDelete(k, 1)
       \/ KernelCallbackInvoke(k, 1)

SpecArgs == InitArgs /\ [][NextArgs]_vars

\* Two handles, of any of the types and any value up to the bound, formatted
\* side by side.
InitString ==
    /\ callers = {1, 2}
    /\ waitLists = {<<>>}
    /\ memLists = {<<>>}
    /\ InitState
    /\ InitRuntime

NextString ==
    \E k \in Calls :
       \/ PlatformIDString(k) \/ DeviceIDString(k) \/ CommandQueueString(k)
       \/ MemObjectString(k) \/ KernelString(k) \/ SamplerString(k)

SpecString == InitString /\ [][NextString]_vars

\* Goroutine 1 enqueues a task and goroutine 2 a kernel range, with every
\* wait-list and every list of work dimensions up to the bounds.
InitTask ==
    /\ callers = {1, 2}
    /\ waitLists = WaitLists
    /\ memLists = {<<>>}
    /\ InitState
    /\ InitRuntime

NextTask == EnqueueTask(1) \/ EnqueueNDRangeKernel(2)

SpecTask == InitTask /\ [][NextTask]_vars

\* Two goroutines registering callbacks, with allocations that may fail; no
\* delivery.
SpecAlloc == InitDup /\ [][Register]_vars

\* Two goroutines registering callbacks, and a runtime that calls back for the
\* registrations it accepted, once for each.
SpecPair == InitDup /\ [][Next]_vars

\* Two goroutines, each making one call of any operation of the binding, the
\* second while the callback of the first may be registered or being delivered.
InitFrame ==
    /\ callers = {1, 2}
    /\ waitLists = {<<>>}
    /\ memLists = {<<>>}
    /\ InitState
    /\ InitRuntime

SpecFrame == InitFrame /\ [][NextCalls]_vars

\* Two calls of the wrappers with a notification, one after the other, with
\* and without user data, and again.
InitNotify ==
    /\ callers = {1, 2}
    /\ waitLists = {<<>>}
    /\ memLists = {<<>>}
    /\ InitState
    /\ InitRuntime

NextNotify ==
    \E k \in Calls :
       \/ cl12BuildProgram(k) \/ cl12CompileProgram(k) \/ cl12LinkProgram(k)
       \/ cl12CreateContext(k) \/ cl12CreateContextFromType(k)
       \/ Again(k)

SpecNotify == InitNotify /\ [][NextNotify]_vars

\* ------------------------------------------------------------------ claims

RegisteringOps == {"SetMemObjectDestructorCallback", "EnqueueNativeKernel"}

\* The native call of caller k was made / was accepted / was rejected.
NativeCalled(k) == native[k].fn # "none"
Accepted(k) == op[k] \in RegisteringOps /\ NativeCalled(k) /\ status[k] = CL_SUCCESS
Rejected(k) == op[k] \in RegisteringOps /\ NativeCalled(k) /\ status[k] # CL_SUCCESS

\* Tokens handed out so far, and those a trampoline has removed.
Allocated == {tok[k] : k \in {j \in Calls : tok[j] # 0}}
TrampolineRemoved ==
    {tok[k] : k \in {j \in Calls : \E c \in Copies : tpc[j][c] \in {"invoke", "done"}}}

Reverse(seq) == [i \in 1..Len(seq) |-> seq[Len(seq) + 1 - i]]
IsPrefix(a, b) == Len(a) <= Len(b) /\ \A i \in 1..Len(a) : a[i] = b[i]

\* C1: every token is Registered, or Delivered-and-removed, or
\* Rolled-back-and-removed, and exactly one of the three: no token is both
\* delivered and rolled back, and a token that was removed (its removal is kept
\* in rolledBack or in the position of its trampoline) is not in the registry
\* again.
C1_TokenLifecycle ==
    /\ rolledBack \cap delivered = {}
    /\ rolledBack \cap TrampolineRemoved = {}
    /\ \A t \in Allocated :
          /\ Registered(t) \/ t \in rolledBack \/ t \in TrampolineRemoved
          /\ t \in rolledBack \cup TrampolineRemoved => ~Registered(t)
    /\ DOMAIN registry \subseteq Allocated

C1_Witness ==
    \E j, k \in Calls :
       /\ Rejected(j) /\ pc[j] = "done" /\ tok[j] \in rolledBack
       /\ Accepted(k) /\ tpc[k][1] = "done" /\ tok[k] \in delivered
       /\ ~Registered(tok[j]) /\ ~Registered(tok[k])

\* C2: a registering call whose native call returned a non-success status has,
\* when it is over, removed its token from the registry and returned the
\* StatusError of that status, and its host callback is never invoked.
C2_RollbackOnFailure ==
    \A k \in Calls :
       Rejected(k) =>
          /\ pc[k] \in {"called", "done"}
          /\ fired[k] = 0
          /\ \A c \in Copies : tpc[k][c] = "idle"
          /\ pc[k] = "done" =>
                /\ ~Registered(tok[k])
                /\ ret[k] = StatusError(status[k])

C2_Witness ==
    \E j, k \in Calls :
       /\ op[j] = "SetMemObjectDestructorCallback" /\ Rejected(j) /\ pc[j] = "done"
       /\ op[k] = "EnqueueNativeKernel" /\ Rejected(k) /\ pc[k] = "done"
       /\ status[j] # status[k]

\* C3: in both trampolines the token is removed from the registry before the
\* host callback starts: a token whose host callback is about to be called or
\* has been called is not in the registry.
C3_RemovedBeforeInvoke ==
    \A k \in Calls :
       (fired[k] > 0 \/ \E c \in Copies : tpc[k][c] = "invoke") => ~Registered(tok[k])

C3_Witness ==
    \E j, k \in Calls :
       /\ op[j] = "SetMemObjectDestructorCallback" /\ tpc[j][1] = "invoke"
       /\ op[k] = "EnqueueNativeKernel" /\ tpc[k][1] = "invoke"

\* C4: when two callback threads enter a trampoline with the same token, the
\* payload is invoked at most once and no thread observes a half-consumed
\* entry: no thread holds the payload it retrieved with Value() of an entry that
\* another thread has removed before its own Delete().
C4_AtomicTake ==
    \A k \in Calls :
       /\ fired[k] <= 1
       /\ \A c \in Copies :
             (tval[k][c] # NoPayload /\ tpc[k][c] \in {"delete", "panic"})
                => Registered(tok[k])

\* C5: when the trampoline of a registration runs before the registering call
\* has returned, the host callback is invoked exactly once, the registering call
\* returns success without changing the registry, and the token is not in the
\* registry once both are over.
C5_EarlyState ==
    \A k \in Calls :
       (Accepted(k) /\ tpc[k][1] # "idle") =>
          /\ pc[k] \in {"called", "done"}
          /\ tpc[k][1] # "panic"
          /\ fired[k] <= 1
          /\ tpc[k][1] = "done" => (fired[k] = 1 /\ ~Registered(tok[k]))
          /\ pc[k] = "done" => ret[k] = Nil

C5_ReturnStep ==
    \A k \in Calls :
       (Accepted(k) /\ pc[k] = "called" /\ pc'[k] # "called") =>
          /\ pc'[k] = "done"
          /\ ret'[k] = Nil
          /\ registry' = registry

C5_EarlyDelivery == []C5_EarlyState /\ [][C5_ReturnStep]_vars

C5_Witness ==
    \E k \in Calls :
       /\ Accepted(k) /\ pc[k] = "called"
       /\ tpc[k][1] = "done" /\ fired[k] = 1 /\ ~Registered(tok[k])

\* C6: once every registering call has returned and every accepted
\* registration has been called back, the registry is empty, every accepted
\* registration's callback has fired exactly once and every other callback has
\* fired zero times; every token was delivered or rolled back, never neither.
AllOver ==
    /\ \A k \in callers : pc[k] = "done"
    /\ \A k \in Calls : Accepted(k) => tpc[k][1] = "done"

C6_AllConsumed ==
    AllOver =>
       /\ DOMAIN registry = {}
       /\ \A k \in Calls : fired[k] = IF Accepted(k) THEN 1 ELSE 0
       /\ \A t \in Allocated : (t \in delivered) # (t \in rolledBack)

C6_Witness ==
    /\ AllOver
    /\ \E i, j, k \in Calls :
          /\ op[i] = "SetMemObjectDestructorCallback" /\ Accepted(i)
          /\ op[j] = "EnqueueNativeKernel" /\ Accepted(j)
          /\ Rejected(k)

\* C7: the registrations that hold a token not yet consumed hold pairwise
\* distinct tokens, each in the registry and mapped to the callback of its own
\* registration; the N accepted registrations on one memory object that have not
\* fired occupy N distinct entries of the registry.
Live(k) ==
    /\ tok[k] # 0
    /\ tok[k] \notin rolledBack
    /\ pc[k] # "panic"
    /\ \A c \in Copies : tpc[k][c] \in {"idle", "value", "delete"}

Waiting(m) ==
    {k \in Calls : /\ op[k] = "SetMemObjectDestructorCallback" /\ arg[k] = m
                   /\ Accepted(k) /\ tpc[k][1] = "idle"}

C7_DistinctTokens ==
    /\ \A j, k \in Calls : (Live(j) /\ Live(k) /\ j # k) => tok[j] # tok[k]
    /\ \A k \in Calls : Live(k) => (Registered(tok[k]) /\ registry[tok[k]].cb = k)
    /\ \A m \in Mems :
          Cardinality({t \in DOMAIN registry : \E k \in Waiting(m) : tok[k] = t})
             = Cardinality(Waiting(m))

C7_Witness ==
    \E m \in Mems :
       /\ Cardinality(Waiting(m)) = NumCalls
       /\ Cardinality(DOMAIN registry) = NumCalls

\* C8: the destructor callbacks of one memory object are invoked in the reverse
\* order of their registration, each exactly once: what has been invoked so far
\* is the beginning of the reversed registration order, and all of it once the
\* destruction is over.
DestructionOver(m) ==
    /\ memState[m] = "destroying"
    /\ dstack[m] = <<>>
    /\ \A k \in Calls :
          (op[k] = "SetMemObjectDestructorCallback" /\ arg[k] = m /\ Accepted(k))
             => tpc[k][1] = "done"

C8_ReverseOrder ==
    \A m \in Mems :
       /\ IsPrefix(fireLog[m], Reverse(regLog[m]))
       /\ DestructionOver(m) => fireLog[m] = Reverse(regLog[m])

C8_Witness ==
    \E m \in Mems :
       /\ DestructionOver(m)
       /\ regLog[m] = <<1, 2, 3>>
       /\ fireLog[m] = <<3, 2, 1>>

\* C9: every enqueue operation passes the length of its wait-list as the count
\* and a pointer that is null if and only if that length is zero; it never
\* passes (0, non-null) nor (count > 0, null).
EnqueueFns ==
    {"clEnqueueNDRangeKernel", "clEnqueueTask", "clEnqueueNativeKernel",
     "clEnqueueUnmapMemObject", "clEnqueueMigrateMemObjects"}

C9_WaitListMarshalling ==
    \A k \in Calls :
       native[k].fn \in EnqueueFns =>
          /\ native[k].waitListCount = Len(input[k].waitList)
          /\ (native[k].waitList = NULL) <=> (Len(input[k].waitList) = 0)
          /\ ~(native[k].waitListCount = 0 /\ native[k].waitList # NULL)
          /\ ~(native[k].waitListCount > 0 /\ native[k].waitList = NULL)

C9_Witness ==
    \E k \in Calls :
       /\ native[k].fn = "clEnqueueNativeKernel"
       /\ input[k].waitList = <<>>
       /\ native[k].waitListCount = 0
       /\ native[k].waitList = NULL
       /\ pc[k] = "done"

\* C10: a wrapper that received a native status returns nil exactly when that
\* status is CL_SUCCESS and otherwise the StatusError of that status; a
\* non-success status always reaches the caller as that error.
CallOver(k) == pc[k] \in {"done", "panic"}

C10_StatusSurfaced ==
    \A k \in Calls :
       (CallOver(k) /\ NativeCalled(k)) =>
          /\ pc[k] = "done" => ((ret[k] = Nil) <=> (status[k] = CL_SUCCESS))
          /\ status[k] # CL_SUCCESS =>
                (pc[k] = "done" /\ ret[k] = StatusError(status[k]))

C10_Witness ==
    \E k \in Calls :
       /\ op[k] = "Finish"
       /\ pc[k] = "done"
       /\ status[k] = CL_INVALID_OPERATION
       /\ ret[k] = StatusError(CL_INVALID_OPERATION)

\* C11: for every info query on a valid handle: with size 0 and a nil buffer it
\* returns the required size S and writes nothing; with a buffer of exactly S
\* bytes it succeeds and returns S, the size an earlier probe returned; with a
\* buffer of a non-zero size smaller than S it returns an error and size 0 and
\* writes nothing.
InfoOps ==
    {"PlatformInfo", "DeviceInfo", "MemObjectInfo", "KernelInfo", "CommandQueueInfo",
     "SamplerInfo"}

Queried(k) == op[k] \in InfoOps /\ pc[k] = "done" /\ input[k].valid
Probe(k) == Queried(k) /\ input[k].paramSize = 0 /\ input[k].paramValue = NULL
Fetch(k, size) == Queried(k) /\ input[k].paramSize = size /\ input[k].paramValue # NULL

C11_QueryProtocol ==
    /\ \A k \in Calls :
          Probe(k) =>
             ret[k] = Nil /\ result[k].value = infoSize /\ native[k].written = 0
    /\ \A j, k \in Calls :
          (Probe(j) /\ Fetch(k, result[j].value)) =>
             /\ ret[k] = Nil
             /\ result[k].value = result[j].value
             /\ native[k].written = result[j].value
    /\ \A k \in Calls, size \in 1..MaxSize :
          (Fetch(k, size) /\ size < infoSize) =>
             /\ ret[k] = StatusError(status[k])
             /\ status[k] # CL_SUCCESS
             /\ result[k].value = 0
             /\ native[k].written = 0

C11_Witness ==
    /\ Probe(1) /\ result[1].value = MaxSize
    /\ Fetch(2, MaxSize) /\ ret[2] = Nil /\ result[2].value = MaxSize
    /\ op[1] = "PlatformInfo" /\ op[2] = "PlatformInfo"

\* C12: a resource has reference count 1 after its creation call; a successful
\* Retain adds exactly 1 and a successful Release subtracts exactly 1, and
\* nothing else changes a count; a resource is destroyed only in a state where
\* its count is zero and no enqueued command still uses it, and a destroyed
\* resource has count zero.
CreateOps == {"CreateKernel", "CreateSampler", "CreateCommandQueue"}
RetainOps == {"RetainMemObject", "RetainKernel", "RetainSampler", "RetainCommandQueue"}
ReleaseOps == {"ReleaseMemObject", "ReleaseKernel", "ReleaseSampler", "ReleaseCommandQueue"}

\* Caller k returns nil from an operation of ops in this step.
Succeeds(k, ops) ==
    pc[k] = "idle" /\ pc'[k] = "done" /\ op'[k] \in ops /\ ret'[k] = Nil

C12_Counts ==
    \A r \in Resources :
       /\ life[r] # "alive" => refCount[r] = 0
       /\ refCount[r] \in 0..MaxRefs

C12_Step ==
    /\ \A r \in Resources :
          /\ (life[r] = "none" /\ life'[r] = "alive") => refCount'[r] = 1
          /\ (life[r] = "alive" /\ life'[r] = "destroyed") =>
                (refCount[r] = 0 /\ InFlight(r) = {})
          /\ refCount'[r] # refCount[r] =>
                \E k \in Calls : Succeeds(k, CreateOps \cup RetainOps \cup ReleaseOps)
    /\ \A k \in Calls :
          /\ Succeeds(k, RetainOps) =>
                refCount' = [refCount EXCEPT ![native'[k].handle] = @ + 1]
          /\ Succeeds(k, ReleaseOps) =>
                refCount' = [refCount EXCEPT ![native'[k].handle] = @ - 1]

C12_ReferenceCount == []C12_Counts /\ [][C12_Step]_vars

C12_Witness ==
    /\ life["kernel"] = "destroyed"
    /\ life["sampler"] = "alive" /\ refCount["sampler"] = MaxRefs
    /\ \E i \in 1..Len(commands) :
          "kernel" \in commands[i].uses /\ commands[i].state = "complete"
    /\ op[1] = "ReleaseCommandQueue" /\ ret[1] = Nil /\ refCount["queue"] = 0

\* C13: a buffer released down to reference count zero while its sub-buffer is
\* outstanding is not destroyed in any state in which the sub-buffer exists; it
\* is destroyed only in a step taken after the sub-buffer is gone.
C13_ParentState ==
    life["mem"] = "destroyed" => life["sub"] = "destroyed"

C13_ParentStep ==
    (life["mem"] = "alive" /\ life'["mem"] = "destroyed") =>
       (life["sub"] = "destroyed" /\ refCount["mem"] = 0)

C14_FinishWaits ==
    \A k \in Calls :
       (op[k] = "Finish" /\ pc[k] = "done" /\ ret[k] = Nil) =>
          \A i \in 1..native[k].queued : commands[i].state = "complete"

\* Finish returned nil after a command, while a later command is not complete.
C14_Witness ==
    /\ op[1] = "Finish" /\ pc[1] = "done" /\ ret[1] = Nil
    /\ native[1].queued >= 1
    /\ \E j \in (native[1].queued + 1)..Len(commands) : commands[j].state # "complete"

\* A call of CreateCommandQueue returns nil.
Creates(k) ==
    pc[k] = "idle" /\ op'[k] = "CreateCommandQueue" /\ ret'[k] = Nil

\* The queue executes out of order exactly if the properties of the call that
\* created it had QueueOutOfOrderExecModeEnable, and never changes its mode.
C15_Created ==
    /\ \A k \in Calls :
          Creates(k) =>
             (outOfOrder' <=> "QueueOutOfOrderExecModeEnable" \in input'[k].properties)
    /\ outOfOrder' # outOfOrder => \E k \in Calls : Creates(k)

\* On a queue in in-order mode a command has not started unless every command
\* enqueued before it is complete.
C15_Ordered ==
    ~outOfOrder =>
       \A i, j \in 1..Len(commands) :
          (i < j /\ commands[j].state # "queued") => commands[i].state = "complete"

\* C15: on a queue created without QueueOutOfOrderExecModeEnable, a command has
\* not started unless every command enqueued before it is complete, whatever
\* the wait-lists of the two are.
C15_InOrder == []C15_Ordered /\ [][C15_Created]_vars

\* On a created in-order queue the second command, with no wait-list, has
\* started after the first one, which had to wait for an event.
C15_Witness ==
    /\ life["queue"] = "alive" /\ ~outOfOrder
    /\ Len(commands) >= 2
    /\ commands[1].waitList # <<>> /\ commands[2].waitList = <<>>
    /\ commands[2].state = "running"

\* C16: on any queue a command has not started unless every Event of the
\* wait-list its caller passed is complete, and the output event of a command
\* is complete only if the command is.
C16_WaitListHonoured ==
    \A i \in 1..Len(commands) :
       /\ commands[i].state # "queued" =>
             \A e \in Range(commands[i].waitList) : evState[e] = "complete"
       /\ commands[i].event = "complete" => commands[i].state = "complete"

\* On an out-of-order queue a command with a wait-list of two events has
\* completed, and its output event with it, ahead of an earlier command.
C16_Witness ==
    /\ outOfOrder
    /\ \E i, j \in 1..Len(commands) :
          /\ i < j
          /\ commands[i].state = "queued"
          /\ Len(commands[j].waitList) = 2
          /\ commands[j].state = "complete" /\ commands[j].event = "complete"

\* The arguments of the native call of EnqueueNativeKernel by call k, for the
\* n memory objects its caller passed.
Marshalled(k) ==
    LET n == Len(input[k].memObjects)
        call == native[k]
    IN  /\ DOMAIN call.rawArgs = 0..n
        /\ call.args = AddressOf("rawArgs", 0)
        /\ call.argSlots = n + 1
        /\ call.rawArgs[0] = TokenPtr(tok[k])
        /\ call.numMemObjects = n
        /\ n > 0 =>
              /\ call.memList = AddressOf("memObjects", 0)
              /\ call.argsMemLoc = AddressOf("rawArgsMemLocs", 0)
              /\ \A i \in 0..(n - 1) :
                    call.rawArgsMemLocs[i + 1] = AddressOf("rawArgs", 1 + i)
        /\ n = 0 =>
              /\ call.memList = NULL
              /\ call.argsMemLoc = NULL
              /\ call.rawArgsMemLocs = <<>>

\* The trampoline and the host callback of call k: the buffer the trampoline
\* was entered with has the token in slot 0, and the callback got n pointers,
\* the i-th (from 0) the one the runtime patched into slot 1+i, which is the
\* pointer of memObjects[i].
Unmarshalled(k) ==
    LET n == Len(input[k].memObjects)
    IN  /\ tpc[k][1] # "idle" =>
              /\ DOMAIN argsBuf[k] = 0..n
              /\ argsBuf[k][0] = TokenPtr(tok[k])
        /\ memPtr[k].called =>
              /\ Len(memPtr[k].list) = n
              /\ \A i \in 0..(n - 1) :
                    /\ memPtr[k].list[i + 1] = argsBuf[k][1 + i]
                    /\ memPtr[k].list[i + 1] = clMemPointer(input[k].memObjects[i + 1])

\* C17: for every list of n memory objects EnqueueNativeKernel passes n+1 slots
\* with the token pointer in slot 0 and slot 1+i as the patch location of
\* memObjects[i] (null lists and count 0 for n = 0); the trampoline finds the
\* token in slot 0 and the host callback receives exactly the n patched pointers
\* in order (none for n = 0).
C17_ArgumentBuffer ==
    \A k \in Calls :
       native[k].fn = "clEnqueueNativeKernel" => (Marshalled(k) /\ Unmarshalled(k))

\* One callback has received the pointers of two different memory objects, the
\* other callback an empty list.
C17_Witness ==
    /\ memPtr[1].called /\ Len(memPtr[1].list) = 2
    /\ memPtr[1].list[1] # memPtr[1].list[2]
    /\ memPtr[2].called /\ memPtr[2].list = <<>>
    /\ native[2].argsMemLoc = NULL

\* The value of an upper-case hexadecimal digit, and of a string of digits read
\* as a hexadecimal number.
DigitValue(ch) ==
    CHOOSE d \in 0..15 :
       ch = <<"0", "1", "2", "3", "4", "5", "6", "7", "8", "9", "A", "B", "C", "D", "E", "F">>[d + 1]

RECURSIVE ParseHex(_)
ParseHex(digits) ==
    IF digits = <<>> THEN 0
    ELSE 16 * ParseHex(SubSeq(digits, 1, Len(digits) - 1)) + DigitValue(digits[Len(digits)])

Formatted(k) == op[k] = "String" /\ pc[k] = "done"

\* The string is 0x followed by the hexadecimal form of the numeric value.
IsHexForm(str, id) ==
    /\ Len(str) >= 3
    /\ str[1] = "0" /\ str[2] = "x"
    /\ \A i \in 3..Len(str) :
          str[i] \in {"0", "1", "2", "3", "4", "5", "6", "7", "8", "9",
                      "A", "B", "C", "D", "E", "F"}
    /\ (Len(str) > 3 => str[3] # "0")
    /\ ParseHex(SubSeq(str, 3, Len(str))) = id

\* C19: String() of a handle is 0x followed by the hexadecimal form of its
\* numeric value, and two handles of one type are equal exactly if their
\* strings are equal.
C19_HexString ==
    /\ \A k \in Calls : Formatted(k) => IsHexForm(result[k].value, input[k].id)
    /\ \A k1, k2 \in Calls :
          (Formatted(k1) /\ Formatted(k2) /\ input[k1].type = input[k2].type) =>
             ((input[k1].id = input[k2].id) <=> (result[k1].value = result[k2].value))

\* Two different kernel handles that end in the same digit have different
\* strings, one of them of two digits.
C19_Witness ==
    /\ Formatted(1) /\ Formatted(2)
    /\ input[1].type = "Kernel" /\ input[2].type = "Kernel"
    /\ input[1].id = 1 /\ input[2].id = 17
    /\ result[1].value = <<"0", "x", "1">>
    /\ result[2].value = <<"0", "x", "1", "1">>

\* EnqueueTask by call 1 and EnqueueNDRangeKernel by call 2 with the one work
\* dimension {0, 1, 1}, both with the same wait-list.
SideBySide ==
    /\ op[1] = "EnqueueTask" /\ pc[1] = "done"
    /\ op[2] = "EnqueueNDRangeKernel" /\ pc[2] = "done"
    /\ input[2].workDimensions = <<[GlobalOffset |-> 0, GlobalSize |-> 1, LocalSize |-> 1]>>
    /\ input[1].waitList = input[2].waitList

\* C20: EnqueueTask and EnqueueNDRangeKernel with one WorkDimension {0, 1, 1},
\* given the same wait-list, pass the same dependencies to the runtime, return
\* the same error for the same native status, and where both are accepted the
\* two commands have the same work geometry, the same dependencies and use the
\* same objects.
C20_TaskIsUnitRange ==
    SideBySide =>
       /\ native[1].waitListCount = native[2].waitListCount
       /\ native[1].waitList = native[2].waitList
       /\ status[1] = status[2] => ret[1] = ret[2]
       /\ (ret[1] = Nil /\ ret[2] = Nil) =>
             LET task == commands[result[1].value]
                 range == commands[result[2].value]
             IN  /\ task.geometry = range.geometry
                 /\ task.waits = range.waits
                 /\ task.uses = range.uses

\* Both calls were accepted with a wait-list of two events.
C20_Witness ==
    /\ SideBySide
    /\ Len(input[1].waitList) = 2
    /\ ret[1] = Nil /\ ret[2] = Nil
    /\ result[1].value # result[2].value

\* Call k begins a registering operation in this step.
Begins(k) == pc[k] = "idle" /\ pc'[k] # "idle" /\ op'[k] \in RegisteringOps

\* The step either allocates a token for k and goes on, or returns the
\* allocation error at once with the registry as it was.
C21_Step ==
    \A k \in Calls :
       Begins(k) =>
          \/ /\ pc'[k] = "allocated"
             /\ tok'[k] # 0 /\ tok'[k] \in DOMAIN registry' /\ tok'[k] \notin DOMAIN registry
          \/ /\ pc'[k] = "done"
             /\ ret'[k] = ErrAlloc
             /\ registry' = registry /\ nextToken' = nextToken /\ tok'[k] = 0
             /\ native'[k] = NoCall

\* A call that returned the allocation error made no native call, holds no
\* token, and its error is no StatusError; no native call is made without a
\* token.
C21_State ==
    \A k \in Calls :
       /\ (op[k] \in RegisteringOps /\ ret[k] = ErrAlloc) =>
             /\ pc[k] = "done" /\ ~NativeCalled(k) /\ tok[k] = 0
             /\ ret[k].type # "StatusError"
       /\ (op[k] \in RegisteringOps /\ NativeCalled(k)) => tok[k] # 0

\* C21: when userDataFor fails, SetMemObjectDestructorCallback and
\* EnqueueNativeKernel return its error without a native call and with the
\* registry unchanged, and that error is not a StatusError.
C21_AllocationFailure == []C21_State /\ [][C21_Step]_vars

\* The allocation of an EnqueueNativeKernel failed while the token of a
\* SetMemObjectDestructorCallback stays registered.
C21_Witness ==
    /\ op[1] = "SetMemObjectDestructorCallback" /\ tok[1] # 0 /\ Registered(tok[1])
    /\ op[2] = "EnqueueNativeKernel" /\ pc[2] = "done" /\ ret[2] = ErrAlloc
    /\ ~NativeCalled(2)

\* A trampoline run has been entered and has not yet looked its token up.
Entered(k, c) == tpc[k][c] = "value"

\* C22: with a runtime that calls back only for accepted registrations and once
\* for each, a trampoline is entered only with a token that is in the registry
\* with the payload of its call, that was not rolled back and not delivered
\* before; the not-found path is never taken, by a trampoline or by a rollback.
C22_TokenPresent ==
    \A k \in Calls :
       /\ \A c \in Copies :
             /\ Entered(k, c) =>
                   /\ Accepted(k)
                   /\ Registered(tok[k]) /\ registry[tok[k]].cb = k
                   /\ tok[k] \notin rolledBack
             /\ tpc[k][c] # "panic"
       /\ pc[k] # "panic"
       /\ tpc[k][2] = "idle"

\* A trampoline is entered before the registering call has returned, while
\* another call's token has been rolled back.
C22_Witness ==
    /\ Entered(1, 1) /\ pc[1] = "called"
    /\ Rejected(2) /\ tok[2] \in rolledBack

\* The shape the trampoline of a call site asserts.
AssertedShape(site) ==
    IF site = "SetMemObjectDestructorCallback" THEN "func()" ELSE "func(unsafe.Pointer)"

\* The payload a registered call stored has the shape its trampoline asserts,
\* and so has the payload a trampoline retrieved.
C23_State ==
    \A k \in Calls :
       /\ (op[k] \in RegisteringOps /\ tok[k] # 0 /\ Registered(tok[k])) =>
             registry[tok[k]].shape = AssertedShape(op[k])
       /\ \A c \in Copies :
             tpc[k][c] \in {"delete", "invoke", "done"} =>
                tval[k][c].shape = AssertedShape(op[k])

\* The assertion of a trampoline that finds its token does not fail.
C23_Step ==
    \A k \in Calls, c \in Copies :
       (Entered(k, c) /\ Registered(tok[k]) /\ tpc'[k][c] # "value") =>
          (tpc'[k][c] # "panic" /\ tval'[k][c] = registry[tok[k]])

\* C23: at each call site the payload the registration stores has the shape the
\* site's trampoline asserts (a no-argument function for the destructor
\* callback, a function of one argument-base pointer for the native kernel), so
\* the assertion never fails for a token delivered to its own site's trampoline.
C23_ShapesAgree == []C23_State /\ [][C23_Step]_vars

\* Both trampolines have retrieved their payloads.
C23_Witness ==
    /\ op[1] = "SetMemObjectDestructorCallback" /\ tpc[1][1] = "delete"
    /\ tval[1][1].shape = "func()"
    /\ op[2] = "EnqueueNativeKernel" /\ tpc[2][1] = "delete"
    /\ tval[2][1].shape = "func(unsafe.Pointer)"

\* The native calls that change a reference count or create an object.
CountingFns ==
    {"clRetainMemObject", "clReleaseMemObject", "clRetainKernel", "clReleaseKernel",
     "clRetainSampler", "clReleaseSampler", "clRetainCommandQueue",
     "clReleaseCommandQueue", "clCreateKernel", "clCreateSampler", "clCreateCommandQueue"}

\* Call k takes a step of an operation that registers no callback.
PlainStep(k) ==
    /\ pc'[k] # pc[k]
    /\ op'[k] \notin RegisteringOps

\* A step of an operation that registers no callback leaves the registry, the
\* token counter and every token, rollback and trampoline run as they were; and
\* a reference count or an object's existence changes only in the step of a
\* native retain, release or create call that returned CL_SUCCESS.
C24_Step ==
    /\ \A k \in Calls :
          PlainStep(k) =>
             /\ registry' = registry /\ nextToken' = nextToken
             /\ tok' = tok /\ rolledBack' = rolledBack /\ delivered' = delivered
             /\ tpc' = tpc /\ tval' = tval /\ fired' = fired
             /\ dstack' = dstack /\ regLog' = regLog /\ fireLog' = fireLog
             /\ \A j \in Calls \ {k} :
                   /\ pc'[j] = pc[j] /\ ret'[j] = ret[j] /\ result'[j] = result[j]
                   /\ native'[j] = native[j]
    /\ (refCount' # refCount \/ life' # life) =>
          \E k \in Calls :
             /\ PlainStep(k)
             /\ native'[k].fn \in CountingFns
             /\ status'[k] = CL_SUCCESS

\* C24: the operations that register no callback leave the user-data registry
\* unchanged, and handles and reference counts are changed by native calls
\* only: nothing but the registry is local state that an operation changes.
C24_RegistryOnlyLocalState == [][C24_Step]_vars

\* A release has lowered the count of the memory object while the callback of
\* the other call is still registered.
C24_Witness ==
    /\ op[1] = "SetMemObjectDestructorCallback" /\ Registered(tok[1])
    /\ op[2] = "ReleaseMemObject" /\ ret[2] = Nil
    /\ native[2].handle = "mem" /\ refCount["mem"] = 0

\* C25: for every workDimensions list, the empty one included, a call of
\* EnqueueNDRangeKernel reaches the native call with work_dim equal to the
\* length of the list and the three arrays filled from the dimensions, and
\* returns nil or the StatusError of the native status; it never fails before
\* the native call.
C25_RangeReachesNative ==
    \A k \in Calls :
       (op[k] = "EnqueueNDRangeKernel" /\ pc[k] # "idle") =>
          /\ pc[k] = "done"
          /\ native[k].fn = "clEnqueueNDRangeKernel"
          /\ LET dims == input[k].workDimensions
             IN  /\ native[k].workDim = Len(dims)
                 /\ \A i \in 1..Len(dims) :
                       /\ native[k].globalWorkOffsets[i] = dims[i].GlobalOffset
                       /\ native[k].globalWorkSizes[i] = dims[i].GlobalSize
                       /\ native[k].localWorkSizes[i] = dims[i].LocalSize
          /\ ret[k] = IF status[k] = CL_SUCCESS THEN Nil ELSE StatusError(status[k])

ListOps == {"PlatformIDs", "DeviceIDs", "CreateKernelsInProgram", "CreateSubDevices"}

\* The count-probe of list operation k succeeded and reported count.
Probed(k, count) ==
    /\ op[k] \in ListOps /\ pc[k] # "idle"
    /\ (native[k].calls = 1 => status[k] = CL_SUCCESS)
    /\ native[k].probed = count

\* C26: when the count-probe of a list-returning operation succeeds and reports
\* zero, the operation returns an empty list and a nil error and has made no
\* second native call.
C26_EmptyList ==
    \A k \in Calls :
       Probed(k, 0) =>
          /\ pc[k] = "done"
          /\ ret[k] = Nil
          /\ result[k].value = <<>>
          /\ native[k].calls = 1

\* C27: a list-returning operation that makes the fetch call passes a buffer of
\* as many entries as the probe reported and completes: with the first c2
\* entries when the fetch succeeds and reports c2, whatever c2 is, with the
\* StatusError otherwise.
C27_FetchedPrefix ==
    \A k \in Calls :
       (op[k] \in ListOps /\ pc[k] # "idle" /\ native[k].calls = 2) =>
          /\ native[k].numEntries = native[k].probed
          /\ pc[k] = "done"
          /\ status[k] = CL_SUCCESS =>
                /\ ret[k] = Nil
                /\ result[k].value = [i \in 1..native[k].fetched |-> i]
          /\ status[k] # CL_SUCCESS =>
                /\ ret[k] = StatusError(status[k])
                /\ result[k].value = <<>>


NotifyOps == {"cl12BuildProgram", "cl12CompileProgram", "cl12LinkProgram",
              "cl12CreateContext", "cl12CreateContextFromType"}

C29_SamplerNames ==
    \A k \in Calls :
       (op[k] = "SamplerInfo" /\ pc[k] = "done") =>
          /\ input[k].paramName \in SamplerInfoName
          /\ native[k].paramName = input[k].paramName.value

====
